---- MODULE Spec2Model ----
(***************************************************************************)
(* Model of the light Bitcoin Testnet3 node: wallet event loop, listener   *)
(* block validation and the version/verack handshake.                      *)
(*                                                                         *)
(* Conventions.                                                            *)
(*  - Amounts are integer satoshi units (the f64 BTC amounts of the code    *)
(*    scaled by 10^8).                                                      *)
(*  - SHA-256d is collision free: the digest of a value is a tagged tuple   *)
(*    holding the value.  Digests are shown here in display (hex) order;    *)
(*    the byte order stored inside an outpoint is the reverse.              *)
(*  - A HashMap is a function; its iteration order is a nondeterministic    *)
(*    choice.                                                               *)
(***************************************************************************)
EXTENDS Integers, Sequences, FiniteSets, TLC

VARIABLES
    wallets,        \* Wallet.accounts : alias -> Account
    utxos,          \* TrxHashMap<Txn> owned by the wallet thread
    wallet_file,    \* contents of the wallets file (image written by save)
    wallet_pc,      \* "running" | "stopped" | "panicked" : the iniciar_wallet loop
    last_event,     \* the event handled by the latest loop iteration, and its result
    n_events,       \* number of events handled so far
    now,            \* latest reading of the clock by LockTime::create
    headers,        \* Arc<Mutex<Vec<BlockHeader>>>
    headers_file,   \* lines of the headers file
    blocks_dir,     \* blocks directory : file name -> block
    wallet_chan,    \* WalletEvents sent by the listener, not yet received
    gui_chan,       \* GuiEvents sent by the listener
    listener_pc,    \* "running" | "dead" : the listener thread
    last_block,     \* payload of the latest block message given to validar_bloque
    n_blocks,       \* number of block messages handled by the listener
    conn_pc,        \* per connection : position of the handshake / handler
                    \*   ("none" when nobody is connected)
    conn_in,        \* per connection : messages sent by the peer, not yet read
    conn_out,       \* per connection : messages written by the node, in order
    conn_closed,    \* per connection : the peer has closed the connection
    conn_seen,      \* per connection : messages read so far by the node, in order
    conn_ret,       \* per connection : what the latest handle_specific_message returned
    n_peer,         \* number of messages sent by peers so far
    headers_hash_height,  \* Arc<Mutex<HashMap<Vec<u8>, usize>>> of the server
    txn_memory,           \* Arc<Mutex<Vec<(String, Txn)>>> : recent transactions
    client_connections,   \* Arc<Mutex<HashMap<String, TcpStream>>> : address -> socket
    recv_notif,           \* Invs sent by the listener, not yet taken by the notifier
    last_notif,           \* the latest Inv the notifier handled, and what it did
    last_call,            \* the call of a function of the node under way or made last :
                          \*   its arguments, its local variables, what it returned
    config,               \* Config : server_mode and cant_max_txn_memoria
    pool                  \* ThreadPool of the block download : channel, workers, main thread

wallet_vars == <<wallets, utxos, wallet_file, wallet_pc, last_event, n_events, now>>
listener_vars == <<headers, headers_file, blocks_dir, wallet_chan, gui_chan,
                   listener_pc, last_block, n_blocks>>
conn_vars == <<conn_pc, conn_in, conn_out, conn_closed, conn_seen, conn_ret, n_peer>>
server_vars == <<headers_hash_height, txn_memory, client_connections, recv_notif, last_notif,
                last_call, config, pool>>
vars == <<wallet_vars, listener_vars, conn_vars, server_vars>>

(***************************************************************************)
(* Bounds.                                                                 *)
(***************************************************************************)
MaxEvents == 2
MaxClock == 0
MaxBlockTxns == 2
MaxBlocks == 3
MaxPeerMsgs == 3

(***************************************************************************)
(* Generic helpers.                                                        *)
(***************************************************************************)
Reverse(s) == [i \in 1..Len(s) |-> s[Len(s) + 1 - i]]

Range(s) == {s[i] : i \in 1..Len(s)}

\* all orders in which the elements of a finite set can be iterated
Orders(S) == {s \in [1..Cardinality(S) -> S] : Range(s) = S}

RECURSIVE SumSeq(_)
SumSeq(s) == IF s = <<>> THEN 0 ELSE s[1] + SumSeq(Tail(s))

\* remove the element at (1-based) position i
RemoveAt(s, i) == SubSeq(s, 1, i - 1) \o SubSeq(s, i + 1, Len(s))

(***************************************************************************)
(* Script opcodes and addresses.                                           *)
(***************************************************************************)
OP_DUP == 118
OP_HASH160 == 169
OP_EQUALVERIFY == 136
OP_CHECKSIG == 172
PUBKEY_HASH_LEN == 20

\* Base58Check addresses known to the model: two local candidates and one
\* external one.  Each decodes to a distinct 20-byte pubkey hash.
LocalAddresses == {"mA", "mB"}
Addresses == LocalAddresses \cup {"mX"}
PrivateKeys == {"kA", "kB"}
AddressByte(a) == CASE a = "mA" -> 1 [] a = "mB" -> 2 [] OTHER -> 3
\* the address whose pubkey hash is HASH160 of the public key of a private key
AddressOfKey(k) == IF k = "kA" THEN "mA" ELSE "mB"

\* a Base58Check string with a valid checksum whose payload, after the
\* version byte, is 16 zero bytes
ShortAddress == "mZ"

\* the bytes between the version byte and the checksum, however many
decode_bitcoin_adress(public_address) ==
    IF public_address = ShortAddress THEN [i \in 1..16 |-> 0]
    ELSE [i \in 1..PUBKEY_HASH_LEN |-> AddressByte(public_address)]

encode_bitcoin_adress(pubkey_hash) ==
    CHOOSE a \in Addresses : decode_bitcoin_adress(a) = pubkey_hash

obtain_pk_script(public_address) ==
    <<OP_DUP, OP_HASH160, PUBKEY_HASH_LEN>>
        \o decode_bitcoin_adress(public_address)
        \o <<OP_EQUALVERIFY, OP_CHECKSIG>>

is_p2pkh(raw_pk_script, raw_pk_script_bytes) ==
    /\ raw_pk_script_bytes # 0
    /\ raw_pk_script[1] = OP_DUP
    /\ raw_pk_script[2] = OP_HASH160
    /\ raw_pk_script[raw_pk_script_bytes] = OP_CHECKSIG
    /\ raw_pk_script[raw_pk_script_bytes - 1] = OP_EQUALVERIFY

obtain_pubkey_hash(output) ==
    IF is_p2pkh(output.pk_script, Len(output.pk_script))
    THEN SubSeq(output.pk_script, 4, Len(output.pk_script) - 2)
    ELSE [i \in 1..16 |-> 0]

amount_of_satoshis(output) == output.value_amount_satoshis

(***************************************************************************)
(* Transactions.                                                           *)
(***************************************************************************)
TxOut_new(receptor_address, amount) ==
    [value_amount_satoshis |-> amount, pk_script |-> obtain_pk_script(receptor_address)]

\* Txn::obtain_tx_id : SHA-256d of the serialised transaction, as hex string
obtain_tx_id(txn) == <<"txid", txn>>

\* OutPoint::new stores the txid bytes reversed
obtain_txid_from_str(txid) == Reverse(txid)

TxIn_new(trxkey, pk_script) ==
    [previous_output |-> [hash_previous_output_txid |-> obtain_txid_from_str(trxkey[1]),
                          output_index |-> trxkey[2]],
     signature_script |-> pk_script,
     sequence |-> "ffffffff"]

obtain_tx_id_of_previous_output(txin) ==
    <<Reverse(txin.previous_output.hash_previous_output_txid),
      txin.previous_output.output_index>>

\* signature script written by firmar: <DER signature + SIGHASH_ALL> <SEC pubkey>;
\* the SEC public key is represented by the address it hashes to
Script_new(private_address) == <<"der", "sec", AddressOfKey(private_address)>>

\* Script::obtain_public_adress : address of the SEC pubkey in a signature
\* script, "-" where the callers replace the error
obtain_public_adress(raw_script) ==
    IF Len(raw_script) = 3 /\ raw_script[2] = "sec" THEN raw_script[3] ELSE "-"


Txn_new(emisor, receptor_address, importe, vuelto, input_keys, lock_time) ==
    [tx_in |-> [i \in 1..Len(input_keys) |->
                    TxIn_new(input_keys[i], obtain_pk_script(emisor.public_address))],
     tx_out |-> IF vuelto > 0
                THEN <<TxOut_new(receptor_address, importe),
                       TxOut_new(emisor.public_address, vuelto)>>
                ELSE <<TxOut_new(receptor_address, importe)>>,
     tx_lock_time |-> lock_time]

\* firmar fails with CheckInvalidoScript when HASH160 of the public key of
\* the account's private key is not the pubkey hash of its address
firmar_ok(transaction, firmante) ==
    \/ Len(transaction.tx_in) = 0
    \/ decode_bitcoin_adress(AddressOfKey(firmante.private_address))
         = decode_bitcoin_adress(firmante.public_address)

firmar(transaction, firmante) ==
    [transaction EXCEPT !.tx_in =
        [i \in 1..Len(transaction.tx_in) |->
            [transaction.tx_in[i] EXCEPT
                !.signature_script = Script_new(firmante.private_address)]]]

(***************************************************************************)
(* Blocks, proof of work and proof of inclusion.                           *)
(***************************************************************************)
LARGO_TARGET == 32
BYTES_IN_SIGNIFICAND == 3

\* SerializedBlock::obtain_blockhash : SHA-256d of the 80 header bytes, as hex
obtain_blockhash(block_header) == <<"blockhash", block_header>>

\* The same digest as a 256-bit big-endian number, byte by byte.  The nonce
\* decides the digest: an odd nonce below FIRST_POW_NONCE gives a digest
\* above the Testnet minimum difficulty target, an even one a digest below it.
\* Headers with a nonce of FIRST_POW_NONCE or more have the digests of
\* PowDigests, which lie at, just below and just above the targets checked.
FIRST_POW_NONCE == 256

\* digests around the number whose bytes pos and pos + 1 are ff ff
DigestAt(pos) == [i \in 1..LARGO_TARGET |-> IF i \in {pos, pos + 1} THEN 255 ELSE 0]
DigestBelow(pos) ==
    [i \in 1..LARGO_TARGET |-> IF i < pos THEN 0 ELSE IF i = pos + 1 THEN 254 ELSE 255]
DigestAbove(pos) == [i \in 1..LARGO_TARGET |-> IF i = pos - 1 THEN 1 ELSE 0]

PowDigests ==
    <<[i \in 1..LARGO_TARGET |-> 0], [i \in 1..LARGO_TARGET |-> 255],
      DigestAt(3), DigestBelow(3), DigestAbove(3),
      DigestAt(5), DigestBelow(5), DigestAbove(5),
      DigestAt(31), DigestBelow(31), DigestAbove(31)>>

header_hash_be(block_header) ==
    IF block_header.nonce >= FIRST_POW_NONCE
    THEN PowDigests[block_header.nonce - FIRST_POW_NONCE + 1]
    ELSE [i \in 1..LARGO_TARGET |->
             IF i = 4 THEN block_header.nonce % 2
             ELSE IF i = LARGO_TARGET THEN block_header.nonce % 256 ELSE 0]

mantisa_to_be_bytes(mantisa) ==
    <<0, (mantisa \div 65536) % 256, (mantisa \div 256) % 256, mantisa % 256>>

RECURSIVE cmp_hash_target(_, _, _)
cmp_hash_target(hash, target, i) ==
    IF i > LARGO_TARGET THEN "false"
    ELSE IF hash[i] > target[i] THEN "false"
    ELSE IF hash[i] < target[i] THEN "true"
    ELSE cmp_hash_target(hash, target, i + 1)

\* proof_of_work on the header's n_bits and its digest: "true", "false", or
\* "panic" when the exponent puts the mantissa outside the 32-byte target
proof_of_work_bytes(n_bits, hash) ==
    LET exponente == (n_bits \div 16777216) % 256
        mantisa == n_bits % 16777216
        desplazamiento == exponente - BYTES_IN_SIGNIFICAND
        inicio_slice == LARGO_TARGET - desplazamiento - BYTES_IN_SIGNIFICAND - 1
        fin_slice == LARGO_TARGET - desplazamiento
        target == [i \in 1..LARGO_TARGET |->
                      IF i > inicio_slice /\ i <= fin_slice
                      THEN mantisa_to_be_bytes(mantisa)[i - inicio_slice]
                      ELSE 0]
    IN  IF desplazamiento < 0 \/ inicio_slice < 0 THEN "panic"
        ELSE cmp_hash_target(hash, target, 1)

proof_of_work(header_bloque) ==
    proof_of_work_bytes(header_bloque.n_bits, header_hash_be(header_bloque)) = "true"

proof_of_work_panics(header_bloque) ==
    proof_of_work_bytes(header_bloque.n_bits, header_hash_be(header_bloque)) = "panic"

\* SHA-256d of a serialised transaction (a Merkle leaf) and of the
\* concatenation of two digests (an inner node)
sha256d_txn(txn) == <<"leaf", txn>>
sha256d_concat(txn_1, txn_2) == <<"node", <<txn_1, txn_2>>>>

RECURSIVE generar_merkle_tree_root_hash(_)
generar_merkle_tree_root_hash(transacciones) ==
    IF Len(transacciones) = 1 THEN transacciones[1]
    ELSE LET padded == IF Len(transacciones) % 2 # 0
                       THEN Append(transacciones, transacciones[Len(transacciones)])
                       ELSE transacciones
             transacciones_hasheadas ==
                 [j \in 1..(Len(padded) \div 2) |->
                     sha256d_concat(padded[2 * j - 1], padded[2 * j])]
         IN  generar_merkle_tree_root_hash(transacciones_hasheadas)

proof_of_inclusion(bloque) ==
    generar_merkle_tree_root_hash(
        [i \in 1..Len(bloque.txns) |-> sha256d_txn(bloque.txns[i])])
      = bloque.block_header.merkle_root_hash

\* generar_niveles_arbol : the levels of the Merkle tree from the level at
\* indice on; a level of odd length gets its last hash appended again
\* (a level without hashes is never the last one: the recursion does not end)
RECURSIVE generar_niveles_arbol(_, _)
generar_niveles_arbol(merkle_tree, indice) ==
    LET nivel == merkle_tree[indice]
        padded == IF Len(nivel) % 2 # 0 THEN Append(nivel, nivel[Len(nivel)]) ELSE nivel
        transacciones_hasheadas ==
            [j \in 1..(Len(padded) \div 2) |-> sha256d_concat(padded[2 * j - 1], padded[2 * j])]
    IN  IF Len(nivel) = 1 THEN merkle_tree
        ELSE generar_niveles_arbol(
                 Append([merkle_tree EXCEPT ![indice] = padded], transacciones_hasheadas),
                 indice + 1)

generar_merkle_tree(bloque) ==
    generar_niveles_arbol(<<[i \in 1..Len(bloque.txns) |-> sha256d_txn(bloque.txns[i])]>>, 1)

\* Iterator::position : the zero-based index of the first element equal to
\* x, -1 for None
position(s, x) ==
    IF \E i \in 1..Len(s) : s[i] = x
    THEN (CHOOSE i \in 1..Len(s) : s[i] = x /\ \A k \in 1..(i - 1) : s[k] # x) - 1
    ELSE -1

\* the loop of merkle_proof over the levels below the root
RECURSIVE nodos_hermanos(_, _, _)
nodos_hermanos(merkle_tree, indice_nivel, indice_tx) ==
    IF indice_nivel = Len(merkle_tree) THEN <<>>
    ELSE LET es_izquierdo == indice_tx % 2 = 0
             dir_hermano == IF es_izquierdo THEN "right" ELSE "left"
             indice_hermano == IF es_izquierdo THEN indice_tx + 1 ELSE indice_tx - 1
         IN  <<<<merkle_tree[indice_nivel][indice_hermano + 1], dir_hermano>>>> \o
             nodos_hermanos(merkle_tree, indice_nivel + 1, indice_tx \div 2)

\* merkle_proof : pairs (hash, side), the transaction first
merkle_proof(transaccion, bloque) ==
    LET merkle_tree == generar_merkle_tree(bloque)
        indice_tx == position(merkle_tree[1], transaccion)
    IN  IF indice_tx = -1 THEN <<>>
        ELSE <<<<transaccion, IF indice_tx % 2 = 0 THEN "left" ELSE "right">>>> \o
             nodos_hermanos(merkle_tree, 1, indice_tx)

\* a reduce that always puts the accumulated hash on the left
RECURSIVE reduce_siempre_right(_, _)
reduce_siempre_right(txn_1, rest) ==
    IF rest = <<>> THEN txn_1
    ELSE reduce_siempre_right(sha256d_concat(txn_1, rest[1][1]), Tail(rest))

\* the reduce of generar_merkle_root_con_merkle_proof
RECURSIVE reduce(_, _)
reduce(txn_1, rest) ==
    IF rest = <<>> THEN txn_1
    ELSE LET txn_2 == rest[1]
         IN  reduce(IF txn_2[2] = "right" THEN sha256d_concat(txn_1, txn_2[1])
                                         ELSE sha256d_concat(txn_2[1], txn_1),
                    Tail(rest))

\* generar_merkle_root_con_merkle_proof : the empty vector for an empty proof
generar_merkle_root_con_merkle_proof(proof) ==
    IF proof = <<>> THEN <<>> ELSE reduce(proof[1][1], Tail(proof))


(***************************************************************************)
(* UTXO map.                                                               *)
(***************************************************************************)
Restrict(f, S) == [k \in S |-> f[k]]

\* keys (txid, output index) of the outputs of a transaction
OutputKeys(txn) == {<<obtain_tx_id(txn), i - 1>> : i \in 1..Len(txn.tx_out)}

\* keys referenced by the inputs of a transaction
InputKeys(txn) == {obtain_tx_id_of_previous_output(txn.tx_in[i]) : i \in 1..Len(txn.tx_in)}

BlockInputKeys(block) == UNION {InputKeys(block.txns[t]) : t \in 1..Len(block.txns)}

BlockOutputKeys(block) == UNION {OutputKeys(block.txns[t]) : t \in 1..Len(block.txns)}

\* the transaction that a key of the block's outputs belongs to
BlockTxnOf(block, key) ==
    block.txns[CHOOSE t \in 1..Len(block.txns) : obtain_tx_id(block.txns[t]) = key[1]]

\* update_utxo that looks for the spent outputs before inserting the new ones
update_utxo_sin_nuevos(utxo_map, new_block) ==
    LET inputs == BlockInputKeys(new_block)
        outs == BlockOutputKeys(new_block)
        spent_utxo == {k \in inputs : k \in DOMAIN utxo_map}
    IN  [k \in ((DOMAIN utxo_map) \ spent_utxo) \cup outs |->
            IF k \in outs THEN BlockTxnOf(new_block, k) ELSE utxo_map[k]]

\* update_utxo : every output of the block is inserted, then every key
\* referenced by an input of the block and present in the map is removed
update_utxo(utxo_map, new_block) ==
    LET inputs == BlockInputKeys(new_block)
        outs == BlockOutputKeys(new_block)
        added == [k \in (DOMAIN utxo_map) \cup outs |->
                     IF k \in outs THEN BlockTxnOf(new_block, k) ELSE utxo_map[k]]
        spent_utxo == {k \in inputs : k \in DOMAIN added}
    IN  Restrict(added, (DOMAIN added) \ spent_utxo)

\* the inputs counted as not matched by update_utxo
update_utxo_unmatched(utxo_map, new_block) ==
    LET inputs == BlockInputKeys(new_block)
        outs == BlockOutputKeys(new_block)
        added == [k \in (DOMAIN utxo_map) \cup outs |->
                     IF k \in outs THEN BlockTxnOf(new_block, k) ELSE utxo_map[k]]
    IN  Cardinality(inputs) - Cardinality({k \in inputs : k \in DOMAIN added})

\* obtain_inputs : the keys referenced by the inputs of the blocks on disk
obtain_inputs(dir) == UNION {BlockInputKeys(dir[name]) : name \in DOMAIN dir}

\* the outputs of a transaction and of a block, as (key, transaction), in the
\* order the loops of obtain_utxos_from visit them
TxnOutputs(txn) == [i \in 1..Len(txn.tx_out) |-> <<<<obtain_tx_id(txn), i - 1>>, txn>>]

RECURSIVE Flatten(_)
Flatten(seqs) == IF seqs = <<>> THEN <<>> ELSE Head(seqs) \o Flatten(Tail(seqs))

BlockOutputs(block) == Flatten([t \in 1..Len(block.txns) |-> TxnOutputs(block.txns[t])])

\* the match of obtain_utxos_from : an output whose key is among the inputs
\* takes the key out of the inputs, any other output is inserted
RECURSIVE match_outputs(_, _, _)
match_outputs(inputs, utxo_map, outputs) ==
    IF outputs = <<>> THEN utxo_map
    ELSE LET key == outputs[1][1]
             txn == outputs[1][2]
         IN  IF key \in inputs
             THEN match_outputs(inputs \ {key}, utxo_map, Tail(outputs))
             ELSE match_outputs(inputs,
                                [k \in (DOMAIN utxo_map) \cup {key} |->
                                    IF k = key THEN txn ELSE utxo_map[k]],
                                Tail(outputs))

\* obtain_utxos_from over the directory entries in the order read_dir gives
obtain_utxos_from(inputs, dir, order) ==
    match_outputs(inputs, <<>>, Flatten([i \in 1..Len(order) |-> BlockOutputs(dir[order[i]])]))

obtain_utxo(dir, order) == obtain_utxos_from(obtain_inputs(dir), dir, order)

(***************************************************************************)
(* Accounts.                                                               *)
(***************************************************************************)
Account_new(public, private) ==
    [public_address |-> public,
     private_address |-> private,
     balance |-> 0,
     pending_balance |-> 0,
     utxo_transaction |-> <<>>,
     sending_txn |-> <<>>,
     sent_txn |-> <<>>,
     receiving_txn |-> <<>>,
     saved_received_txn |-> <<>>]

\* the block column of a TxnInfo that is not in a block yet ("-")
NO_BLOCK == <<"-">>

TxnInfo_new(txn, txn_type, label, amount, address, bloque) ==
    [txn |-> txn, date |-> txn.tx_lock_time, txn_type |-> txn_type,
     label |-> label, amount |-> amount, address |-> address, bloque |-> bloque]

RECURSIVE SumValues(_, _)
SumValues(utxo_map, keys) ==
    IF keys = {} THEN 0
    ELSE LET k == CHOOSE x \in keys : TRUE
         IN  amount_of_satoshis(utxo_map[k].tx_out[k[2] + 1]) + SumValues(utxo_map, keys \ {k})

obtain_account_balance(account, utxo_map) ==
    LET pk_hash == decode_bitcoin_adress(account.public_address)
        owned == {k \in DOMAIN utxo_map :
                     obtain_pubkey_hash(utxo_map[k].tx_out[k[2] + 1]) = pk_hash}
    IN  [account EXCEPT !.balance = SumValues(utxo_map, owned),
                        !.utxo_transaction = Restrict(utxo_map, owned)]

update_pending_balance(account) ==
    [account EXCEPT !.pending_balance =
        0 - SumSeq([i \in 1..Len(account.sending_txn) |-> account.sending_txn[i].amount])]

\* position of the first entry of a TxnInfo list with the given txid, 0 if none
FirstWithTxid(infos, txid) ==
    IF \E i \in 1..Len(infos) : obtain_tx_id(infos[i].txn) = txid
    THEN CHOOSE i \in 1..Len(infos) :
            /\ obtain_tx_id(infos[i].txn) = txid
            /\ \A j \in 1..(i - 1) : obtain_tx_id(infos[j].txn) # txid
    ELSE 0

update_sending_txn(account, txid, bloque) ==
    LET i == FirstWithTxid(account.sending_txn, txid)
    IN  IF i = 0 THEN account
        ELSE [account EXCEPT
                !.sent_txn = Append(@, [account.sending_txn[i] EXCEPT
                                 !.txn_type = "Sent",
                                 !.bloque = obtain_blockhash(bloque.block_header)]),
                !.sending_txn = RemoveAt(@, i)]

update_receiving_txn(account, txid, txn) ==
    LET i == FirstWithTxid(account.receiving_txn, txid)
        e == account.receiving_txn[i]
    IN  IF i = 0 THEN account
        ELSE [account EXCEPT
                !.saved_received_txn = Append(@, [e EXCEPT
                                 !.address = IF e.address = "-"
                                             THEN obtain_public_adress(txn.tx_in[1].signature_script)
                                             ELSE e.address,
                                 !.txn_type = "Received"]),
                !.receiving_txn = RemoveAt(@, i)]


(***************************************************************************)
(* Wallet: transaction building.                                           *)
(***************************************************************************)
UtxoValue(utxo_map, k) == amount_of_satoshis(utxo_map[k].tx_out[k[2] + 1])

\* number of leading keys of the iteration order that the accumulating loop
\* inserts before its running total reaches importe_taxado (all if it never does)
RECURSIVE AccumulateUntil(_, _, _, _, _)
AccumulateUntil(utxo_map, order, importe_taxado, i, acc) ==
    IF i > Len(order) THEN Len(order)
    ELSE IF acc + UtxoValue(utxo_map, order[i]) >= importe_taxado THEN i
    ELSE AccumulateUntil(utxo_map, order, importe_taxado, i + 1,
                         acc + UtxoValue(utxo_map, order[i]))

\* calcular_inputs_outputs without its first loop (the search for one UTXO
\* that covers the amount)
calcular_inputs_outputs_sin_busqueda(importe_taxado, utxo_map, order) ==
    LET n == AccumulateUntil(utxo_map, order, importe_taxado, 1, 0)
        utxo_to_spend == {order[i] : i \in 1..n}
    IN  [utxo_to_spend |-> utxo_to_spend,
         vuelto |-> SumValues(utxo_map, utxo_to_spend) - importe_taxado]

\* calcular_inputs_outputs, for the order in which the HashMap is iterated
calcular_inputs_outputs(importe_taxado, utxo_map, order) ==
    LET singles == {i \in 1..Len(order) : UtxoValue(utxo_map, order[i]) >= importe_taxado}
        alcanza_una_utxo == singles # {}
        first == CHOOSE i \in singles : \A j \in singles : i <= j
        n == AccumulateUntil(utxo_map, order, importe_taxado, 1, 0)
        utxo_to_spend == IF alcanza_una_utxo THEN {order[first]}
                         ELSE {order[i] : i \in 1..n}
        importe_sin_vuelto == SumValues(utxo_map, utxo_to_spend)
    IN  [utxo_to_spend |-> utxo_to_spend, vuelto |-> importe_sin_vuelto - importe_taxado]

\* generar_txn without the comparison of the balance with the taxed amount
generar_txn_sin_control(emisor, receptor_address, importe_btc, fee_btc, order, input_order, lock_time) ==
    LET sel == calcular_inputs_outputs(importe_btc + fee_btc, emisor.utxo_transaction, order)
        transaction == Txn_new(emisor, receptor_address, importe_btc, sel.vuelto,
                               input_order, lock_time)
    IN  IF firmar_ok(transaction, emisor)
        THEN [ok |-> TRUE, error |-> "none", txn |-> firmar(transaction, emisor),
              utxo_to_spend |-> sel.utxo_to_spend, vuelto |-> sel.vuelto]
        ELSE [ok |-> FALSE, error |-> "CheckInvalidoScript"]

\* generar_txn : order is the iteration order of the sender's owned UTXOs,
\* input_order the one of the selected UTXOs, lock_time the clock reading
generar_txn(emisor, receptor_address, importe_btc, fee_btc, order, input_order, lock_time) ==
    LET importe_taxado == importe_btc + fee_btc
        sel == calcular_inputs_outputs(importe_taxado, emisor.utxo_transaction, order)
        transaction == Txn_new(emisor, receptor_address, importe_btc, sel.vuelto,
                               input_order, lock_time)
    IN  IF emisor.balance >= importe_taxado
        THEN IF firmar_ok(transaction, emisor)
             THEN [ok |-> TRUE, error |-> "none", txn |-> firmar(transaction, emisor),
                   utxo_to_spend |-> sel.utxo_to_spend, vuelto |-> sel.vuelto]
             ELSE [ok |-> FALSE, error |-> "CheckInvalidoScript"]
        ELSE [ok |-> FALSE, error |-> "WalletSinFondosSuficientes"]

\* the selected inputs for an iteration order (what generar_txn hands to Txn::new)
SelectedInputs(emisor, importe_taxado, order) ==
    calcular_inputs_outputs(importe_taxado, emisor.utxo_transaction, order).utxo_to_spend

(***************************************************************************)
(* Wallet: event handlers.                                                 *)
(***************************************************************************)
\* what Wallet::save writes: per account the WALLET line and the four sections
SaveImage(w) ==
    [a \in DOMAIN w |->
        [public_address |-> w[a].public_address,
         private_address |-> w[a].private_address,
         sending_txn |-> w[a].sending_txn,
         sent_txn |-> w[a].sent_txn,
         receiving_txn |-> w[a].receiving_txn,
         saved_received_txn |-> w[a].saved_received_txn]]

\* the inner loops of evento_recibir_bloque for one account: outputs are
\* visited transaction by transaction, output by output
RECURSIVE recibir_bloque_account(_, _, _, _)
recibir_bloque_account(account, bloque, tx_index, output_index) ==
    IF tx_index > Len(bloque.txns) THEN account
    ELSE IF output_index > Len(bloque.txns[tx_index].tx_out)
         THEN recibir_bloque_account(account, bloque, tx_index + 1, 1)
    ELSE LET txn == bloque.txns[tx_index]
             txid == obtain_tx_id(txn)
             mine == obtain_pubkey_hash(txn.tx_out[output_index])
                       = decode_bitcoin_adress(account.public_address)
             updated == update_pending_balance(
                            update_receiving_txn(
                                update_sending_txn(account, txid, bloque), txid, txn))
         IN  recibir_bloque_account(IF mine THEN updated ELSE account,
                                    bloque, tx_index, output_index + 1)

\* some output of the block pays a local account
BlockPaysAccount(account, bloque) ==
    \E t \in 1..Len(bloque.txns) : \E o \in 1..Len(bloque.txns[t].tx_out) :
        obtain_pubkey_hash(bloque.txns[t].tx_out[o]) = decode_bitcoin_adress(account.public_address)

evento_recibir_bloque(w, utxo_map, bloque) ==
    [a \in DOMAIN w |->
        recibir_bloque_account(obtain_account_balance(w[a], utxo_map), bloque, 1, 1)]

\* the inner loop of evento_recibir_txn for one account
RECURSIVE recibir_txn_account(_, _, _)
recibir_txn_account(account, txn, output_index) ==
    IF output_index > Len(txn.tx_out) THEN account
    ELSE LET mine == obtain_pubkey_hash(txn.tx_out[output_index])
                       = decode_bitcoin_adress(account.public_address)
             address == obtain_public_adress(txn.tx_in[1].signature_script)
             label == IF address = account.public_address THEN "Change" ELSE "-"
             pushed == [account EXCEPT !.receiving_txn = Append(@,
                           TxnInfo_new(txn, "Receiving", label,
                                       amount_of_satoshis(txn.tx_out[output_index]),
                                       address, NO_BLOCK))]
         IN  recibir_txn_account(IF mine THEN pushed ELSE account, txn, output_index + 1)

evento_recibir_txn(w, txn) ==
    [a \in DOMAIN w |-> recibir_txn_account(w[a], txn, 1)]

\* label.replace(' ', "_")
label_replace(label) == IF label = "my rent" THEN "my_rent" ELSE label

\* the local accounts whose address is the destination of a transfer
AccountsWithAddress(w, address) == {a \in DOMAIN w : w[a].public_address = address}

\* evento_realizar_trx after send_txn returned the transaction: receiver is
\* the first account with the destination address met by the iteration over
\* the accounts, or "" when there is none
realizar_trx_ok(w, alias, transaction, amount, label, address, fee, receiver) ==
    LET emisor_adress == w[alias].public_address
        w1 == [w EXCEPT ![alias] = update_pending_balance(
                  [@ EXCEPT !.sending_txn = Append(@,
                      TxnInfo_new(transaction, "Sending", label_replace(label),
                                  amount + fee, address, NO_BLOCK))])]
    IN  IF receiver = "" THEN w1
        ELSE [w1 EXCEPT ![receiver].receiving_txn = Append(@,
                  TxnInfo_new(transaction, "Receiving", label_replace(label),
                              amount, emisor_adress, NO_BLOCK))]


(***************************************************************************)
(* The transactions, accounts and blocks the environment can supply.       *)
(***************************************************************************)
NULL_HASH == <<"null">>
\* n_bits 0x1d00ffff of the Testnet minimum difficulty
TESTNET_NBITS == 29 * 16777216 + 65535
Aliases == {"w1", "w2"}
Amounts == {3}
Fees == {0, 1, 2}
Labels == {"gift"}
Destinations == {"mA"}

NullTx == [tx_in |-> <<>>, tx_out |-> <<>>, tx_lock_time |-> 0]

CoinbaseIn ==
    [previous_output |-> [hash_previous_output_txid |-> obtain_txid_from_str(obtain_tx_id(NullTx)),
                          output_index |-> 0],
     signature_script |-> <<>>,
     sequence |-> "ffffffff"]

SpendIn(txn, index, signer_address) ==
    [previous_output |-> [hash_previous_output_txid |-> obtain_txid_from_str(obtain_tx_id(txn)),
                          output_index |-> index],
     signature_script |-> <<"der", "sec", signer_address>>,
     sequence |-> "ffffffff"]

OpReturnOut(amount) == [value_amount_satoshis |-> amount, pk_script |-> <<106, 1>>]

\* transactions of the blocks scanned at startup
F1 == [tx_in |-> <<CoinbaseIn>>,
       tx_out |-> <<TxOut_new("mA", 3), TxOut_new("mB", 4)>>,
       tx_lock_time |-> 0]
F2 == [tx_in |-> <<CoinbaseIn>>,
       tx_out |-> <<TxOut_new("mA", 2), OpReturnOut(1)>>,
       tx_lock_time |-> 0]

\* the UTXO map returned by obtain_utxo for those blocks
InitialUtxos ==
    LET keys == OutputKeys(F1) \cup OutputKeys(F2)
    IN  [k \in keys |-> IF k[1] = obtain_tx_id(F1) THEN F1 ELSE F2]

\* transactions created by other nodes
E1 == [tx_in |-> <<SpendIn(F2, 1, "mX")>>,
       tx_out |-> <<TxOut_new("mA", 1)>>,
       tx_lock_time |-> 0]
E2 == [tx_in |-> <<SpendIn(F1, 1, "mB")>>,
       tx_out |-> <<TxOut_new("mB", 1), TxOut_new("mB", 2)>>,
       tx_lock_time |-> 0]
ExtTxns == {E1, E2}

\* a WALLET line of the wallets file followed by its four sections
FileAccount(public, private, receiving) ==
    [public_address |-> public, private_address |-> private,
     sending_txn |-> <<>>, sent_txn |-> <<>>,
     receiving_txn |-> receiving, saved_received_txn |-> <<>>]

\* the RECEIVING line saved after E1 was announced to the account of mA
PendingE1 == TxnInfo_new(E1, "Receiving", "-", 1, "mX", NO_BLOCK)

\* contents of the wallets file at startup, as left by earlier runs: no
\* file, two accounts, two aliases with the same keys, and one account
\* to which E1 was announced twice
InitialWalletFiles ==
    { <<>>,
      [a \in Aliases |-> IF a = "w1" THEN FileAccount("mA", "kA", <<>>)
                                      ELSE FileAccount("mB", "kB", <<>>)],
      [a \in Aliases |-> FileAccount("mA", "kA", <<>>)],
      [a \in {"w1"} |-> FileAccount("mA", "kA", <<PendingE1, PendingE1>>)] }

\* Wallet::agregar_account
agregar_account(w, alias, public_key, private_key, utxo_map) ==
    [a \in (DOMAIN w) \cup {alias} |->
        IF a = alias
        THEN obtain_account_balance(Account_new(public_key, private_key), utxo_map)
        ELSE w[a]]

\* The text of the wallets file.  A line is the sequence of the values
\* written on it, separated by one space: words, the hex dump of a
\* transaction, an amount or a block name.
Text(value) == [kind |-> "text", value |-> value]
Hex(value) == [kind |-> "hex", value |-> value]
Num(value) == [kind |-> "num", value |-> value]
BlockName(value) == [kind |-> "block", value |-> value]

obtain_hexdump_from_txn_info(txn_info) ==
    <<Hex(txn_info.txn), Text(txn_info.label), Num(txn_info.amount),
      Text(txn_info.address), BlockName(txn_info.bloque)>>

write_txn_info(section_header, txn_infos) ==
    <<<<Text(section_header)>>>> \o
    [i \in 1..Len(txn_infos) |-> obtain_hexdump_from_txn_info(txn_infos[i])]

\* the lines Wallet::save writes, the accounts iterated in the given order
RECURSIVE save_lines(_, _)
save_lines(file, order) ==
    IF order = <<>> THEN <<>>
    ELSE LET k == order[1]
             v == file[k]
         IN  <<<<Text("WALLET"), Text(k), Text(v.public_address), Text(v.private_address)>>>>
             \o write_txn_info("SENDING", v.sending_txn)
             \o write_txn_info("SENT", v.sent_txn)
             \o write_txn_info("RECEIVING", v.receiving_txn)
             \o write_txn_info("RECEIVED", v.saved_received_txn)
             \o save_lines(file, Tail(order))

\* str::split_whitespace : the values of the line that are not empty (the
\* strings written by the wallet hold no white space inside)
RECURSIVE split_whitespace(_)
split_whitespace(linea) ==
    IF linea = <<>> THEN <<>>
    ELSE (IF linea[1].kind = "text" /\ linea[1].value = "" THEN <<>> ELSE <<linea[1]>>)
         \o split_whitespace(Tail(linea))

\* str::contains for the section words (no other string written holds one)
contains(linea, word) ==
    \E i \in 1..Len(linea) : linea[i].kind = "text" /\ linea[i].value = word

\* a line of a section that analizar_linea reads without indexing past the
\* words of the line
entry_line_ok(palabras) == Len(palabras) >= 5

\* Wallet::analizar_linea on the state of the load so far; an index past
\* the words of a line panics, a first word that is not hex is an Err
analizar_linea(st, linea, utxo_map) ==
    LET palabras == split_whitespace(linea)
        section(txn_type) == [st EXCEPT !.txn_type = txn_type]
        pushed(list) ==
            IF st.alias \in DOMAIN st.accounts
            THEN [st EXCEPT !.accounts[st.alias][list] = Append(@,
                     TxnInfo_new(palabras[1].value, st.txn_type, palabras[2].value,
                                 IF palabras[3].kind = "num" THEN palabras[3].value ELSE 0,
                                 palabras[4].value, palabras[5].value))]
            ELSE st
    IN  IF st.result # "Ok" THEN st
        ELSE IF contains(linea, "WALLET")
        THEN IF Len(palabras) < 4 THEN [st EXCEPT !.result = "panic"]
             ELSE [st EXCEPT !.alias = palabras[2].value,
                             !.accounts = agregar_account(st.accounts, palabras[2].value,
                                                          palabras[3].value, palabras[4].value,
                                                          utxo_map)]
        ELSE IF contains(linea, "SENDING") THEN section("Sending")
        ELSE IF contains(linea, "SENT") THEN section("Sent")
        ELSE IF contains(linea, "RECEIVING") THEN section("Receiving")
        ELSE IF contains(linea, "RECEIVED") THEN section("Received")
        ELSE IF palabras = <<>> THEN [st EXCEPT !.result = "panic"]
        ELSE IF palabras[1].kind # "hex" THEN [st EXCEPT !.result = "Err"]
        ELSE IF ~entry_line_ok(palabras) THEN [st EXCEPT !.result = "panic"]
        ELSE CASE st.txn_type = "Sending" -> pushed("sending_txn")
               [] st.txn_type = "Sent" -> pushed("sent_txn")
               [] st.txn_type = "Receiving" -> pushed("receiving_txn")
               [] st.txn_type = "Received" -> pushed("saved_received_txn")
               [] OTHER -> st

\* Wallet::load on the lines of an existing file
RECURSIVE load_from(_, _, _)
load_from(st, lines, utxo_map) ==
    IF lines = <<>> THEN st
    ELSE load_from(analizar_linea(st, lines[1], utxo_map), Tail(lines), utxo_map)

load(lines, utxo_map) ==
    load_from([accounts |-> <<>>, alias |-> "", txn_type |-> "Undefined", result |-> "Ok"],
              lines, utxo_map)

\* cargar_wallets_inicio on a file left by Wallet::save
LoadWallets(file, utxo_map) ==
    load(save_lines(file, CHOOSE order \in Orders(DOMAIN file) : TRUE), utxo_map).accounts

\* transactions written to the upstream socket by the wallet
BroadcastTxns == {conn_out["up"][i].payload :
                     i \in {j \in 1..Len(conn_out["up"]) : conn_out["up"][j].command = "tx"}}

\* transactions a peer can announce to the wallet or put in a block handed
\* to it: one made by another node, and those the wallet broadcast
KnownTxns == {E1} \cup BroadcastTxns

MerkleRootOf(txns) ==
    generar_merkle_tree_root_hash([i \in 1..Len(txns) |-> sha256d_txn(txns[i])])

\* sequences of distinct transactions of txns that fit in a block
BlockBodies(txns) ==
    UNION {{s \in [1..n -> txns] : \A i, j \in 1..n : i # j => s[i] # s[j]}
              : n \in 1..MaxBlockTxns}

MinedBlock(previous, txns, n_bits, nonce) ==
    [block_header |-> [previous_block_header_hash |-> previous,
                       merkle_root_hash |-> MerkleRootOf(txns),
                       time |-> 1,
                       n_bits |-> n_bits,
                       nonce |-> nonce],
     txns |-> txns]


(***************************************************************************)
(* Initial states.                                                         *)
(***************************************************************************)
Conn == {"up", "cl"}    \* "up": the outbound peer, "cl": an accepted client

\* the bytes of a payload the model does not look into
Raw(bytes) == [bytes |-> bytes]

Msg(command, payload) == [command |-> command, payload |-> payload]

\* Result<Vec<u8>, RustifyError> of handle_specific_message
NoReturn == [kind |-> "none"]
Returned(payload) == [kind |-> "Ok", payload |-> payload]
Failed(error) == [kind |-> "Err", error |-> error]

\* key pairs the GUI form can submit
KeyPairs == {<<"mA", "kA">>, <<"mB", "kB">>}

InitWalletPart(file) ==
    /\ utxos = InitialUtxos
    /\ wallets = LoadWallets(file, InitialUtxos)
    /\ wallet_file = SaveImage(LoadWallets(file, InitialUtxos))
    /\ wallet_pc = "running"
    /\ last_event = [kind |-> "none"]
    /\ n_events = 0
    /\ now = 0

\* TESNET_GENESIS_HEADER, the first element of every headers vector
TESNET_GENESIS_HEADER ==
    [previous_block_header_hash |-> NULL_HASH,
     merkle_root_hash |-> sha256d_txn(NullTx),
     time |-> 0,
     n_bits |-> TESTNET_NBITS,
     nonce |-> 0]

\* blocks of a chain on top of the genesis block
ChainBlock1 == MinedBlock(obtain_blockhash(TESNET_GENESIS_HEADER), <<E1>>, TESTNET_NBITS, 0)
ChainBlock2 == MinedBlock(obtain_blockhash(ChainBlock1.block_header), <<E2>>, TESTNET_NBITS, 0)
ChainBlock3 == MinedBlock(obtain_blockhash(ChainBlock2.block_header), <<E1>>, TESTNET_NBITS, 2)
ChainBlock4 == MinedBlock(obtain_blockhash(ChainBlock3.block_header), <<E2>>, TESTNET_NBITS, 2)
\* a block this node never hears of
ForeignBlock == MinedBlock(NULL_HASH, <<E1>>, TESTNET_NBITS, 4)

HashHeightInsert(map, header_hash, height) ==
    [k \in (DOMAIN map) \cup {header_hash} |-> IF k = header_hash THEN height ELSE map[k]]

\* insert the headers at (1-based) positions i.. with their heights
RECURSIVE InsertHashHeights(_, _, _)
InsertHashHeights(map, headers_vec, i) ==
    IF i > Len(headers_vec) THEN map
    ELSE InsertHashHeights(
             HashHeightInsert(map, obtain_blockhash(headers_vec[i]), i - 1),
             headers_vec, i + 1)

obtener_hash_height_headers(headers_vec) == InsertHashHeights(<<>>, headers_vec, 1)

\* no ThreadPool has been built
NoPool == [main |-> "none"]

\* the configuration of a node that serves clients and keeps the latest
\* MaxTxnMemory transactions
MaxTxnMemory == 2

DefaultConfig == [server_mode |-> TRUE, cant_max_txn_memoria |-> MaxTxnMemory]

\* the server and the notifier before any client is accepted
InitServerPart(headers_vec) ==
    /\ headers_hash_height = obtener_hash_height_headers(headers_vec)
    /\ txn_memory = <<>>
    /\ client_connections = <<>>
    /\ recv_notif = <<>>
    /\ last_notif = [kind |-> "none"]
    /\ last_call = [fn |-> "none"]
    /\ config = DefaultConfig
    /\ pool = NoPool

InitListenerPart ==
    /\ headers = <<TESNET_GENESIS_HEADER>>
    /\ headers_file = <<>>
    /\ blocks_dir = <<>>
    /\ wallet_chan = <<>>
    /\ gui_chan = <<>>
    /\ listener_pc = "running"
    /\ last_block = [kind |-> "none"]
    /\ n_blocks = 0

\* the connections before any message is exchanged
InitConnPart ==
    /\ conn_pc = [c \in Conn |-> IF c = "up" THEN "send_version" ELSE "await_version"]
    /\ conn_in = [c \in Conn |-> <<>>]
    /\ conn_out = [c \in Conn |-> <<>>]
    /\ conn_closed = [c \in Conn |-> FALSE]
    /\ conn_seen = [c \in Conn |-> <<>>]
    /\ conn_ret = [c \in Conn |-> NoReturn]
    /\ n_peer = 0

\* the upstream connection once iniciar_nodo has returned
ConnectedConnPart ==
    /\ conn_pc = [c \in Conn |-> IF c = "up" THEN "done" ELSE "none"]
    /\ conn_in = [c \in Conn |-> <<>>]
    /\ conn_out = [c \in Conn |-> IF c = "up"
                                  THEN <<Msg("version", Raw("ok")), Msg("verack", Raw(""))>>
                                  ELSE <<>>]
    /\ conn_closed = [c \in Conn |-> FALSE]
    /\ conn_seen = [c \in Conn |-> IF c = "up"
                                   THEN <<Msg("version", Raw("ok")), Msg("verack", Raw(""))>>
                                   ELSE <<>>]
    /\ conn_ret = [c \in Conn |-> IF c = "up" THEN Returned(Raw("")) ELSE NoReturn]
    /\ n_peer = 0

InitWallet ==
    /\ \E file \in InitialWalletFiles : InitWalletPart(file)
    /\ InitListenerPart
    /\ ConnectedConnPart
    /\ InitServerPart(<<TESNET_GENESIS_HEADER>>)

(***************************************************************************)
(* The wallet thread: one action per WalletEvent arm of iniciar_wallet.    *)
(***************************************************************************)
WalletReady == wallet_pc = "running" /\ n_events < MaxEvents

\* the address has a valid checksum and the private key is a secret key
claves_validas(private_key, public_key) ==
    public_key \in Addresses \cup {ShortAddress} /\ private_key \in PrivateKeys

AgregarWallet(private_key, public_key, alias) ==
    /\ WalletReady
    /\ IF claves_validas(private_key, public_key) /\ alias \notin DOMAIN wallets
       THEN /\ wallets' = agregar_account(wallets, alias, public_key, private_key, utxos)
            /\ wallet_file' = SaveImage(wallets')
       ELSE UNCHANGED <<wallets, wallet_file>>
    /\ last_event' = [kind |-> "AgregarWallet", alias |-> alias]
    /\ n_events' = n_events + 1
    /\ UNCHANGED <<utxos, wallet_pc, now, listener_vars, conn_vars, server_vars>>

CargarWallet(alias) ==
    /\ WalletReady
    /\ IF alias \in DOMAIN wallets
       THEN wallets' = [wallets EXCEPT ![alias] =
                update_pending_balance(obtain_account_balance(@, utxos))]
       ELSE UNCHANGED wallets
    /\ last_event' = [kind |-> "CargarWallet", alias |-> alias]
    /\ n_events' = n_events + 1
    /\ UNCHANGED <<utxos, wallet_file, wallet_pc, now, listener_vars, conn_vars, server_vars>>

TransferEvent(alias, amount, label, address, fee, error, txn) ==
    [kind |-> "RealizarTransferencia", alias |-> alias, amount |-> amount,
     label |-> label, address |-> address, fee |-> fee, error |-> error, txn |-> txn]

\* the results generar_txn can give, over the iteration orders of the
\* account's UTXO map and of the map of selected inputs
GenerarTxnResults(emisor, address, amount, fee, lock_time) ==
    UNION {{generar_txn(emisor, address, amount, fee, order, input_order, lock_time) :
               input_order \in Orders(SelectedInputs(emisor, amount + fee, order))} :
           order \in Orders(DOMAIN emisor.utxo_transaction)}

\* evento_realizar_trx with Wallet::send_txn (generar_txn, then broadcast_txn)
RealizarTransferencia(alias, amount, label, address, fee) ==
    /\ WalletReady
    /\ n_events' = n_events + 1
    /\ UNCHANGED <<utxos, wallet_pc, listener_vars, server_vars,
                   conn_pc, conn_in, conn_closed, conn_seen, conn_ret, n_peer>>
    /\ IF alias \notin DOMAIN wallets
       THEN /\ last_event' = TransferEvent(alias, amount, label, address, fee, "NoAlias", NullTx)
            /\ UNCHANGED <<wallets, wallet_file, conn_out, now>>
       ELSE \E lock_time \in now..MaxClock :
            \E r \in GenerarTxnResults(wallets[alias], address, amount, fee, lock_time) :
            LET dest == AccountsWithAddress(wallets, address)
            IN  IF r.ok
                THEN \E receiver \in (IF dest = {} THEN {""} ELSE dest) :
                     /\ conn_out' = [conn_out EXCEPT !["up"] = Append(@, Msg("tx", r.txn))]
                     /\ wallets' = realizar_trx_ok(wallets, alias, r.txn, amount, label,
                                                   address, fee, receiver)
                     /\ wallet_file' = SaveImage(wallets')
                     /\ last_event' = TransferEvent(alias, amount, label, address, fee,
                                                    "none", r.txn)
                     /\ now' = lock_time
                ELSE /\ lock_time = now
                     /\ last_event' = TransferEvent(alias, amount, label, address, fee,
                                                    r.error, NullTx)
                     /\ UNCHANGED <<wallets, wallet_file, conn_out, now>>

\* some output of the transaction pays a local account
TxnPaysWallets(w, txn) ==
    \E a \in DOMAIN w : \E o \in 1..Len(txn.tx_out) :
        obtain_pubkey_hash(txn.tx_out[o]) = decode_bitcoin_adress(w[a].public_address)

\* evento_recibir_txn : txn.tx_in[0] indexes past the end of an empty vector
evento_recibir_txn_panics(txn) == Len(txn.tx_in) = 0

RecibirTxn(txn) ==
    /\ WalletReady
    /\ last_event' = [kind |-> "RecibirTxn", txn |-> txn]
    /\ n_events' = n_events + 1
    /\ UNCHANGED <<utxos, now, listener_vars, conn_vars, server_vars>>
    /\ IF evento_recibir_txn_panics(txn)
       THEN /\ wallet_pc' = "panicked"
            /\ UNCHANGED <<wallets, wallet_file>>
       ELSE /\ wallets' = evento_recibir_txn(wallets, txn)
            /\ wallet_file' = IF TxnPaysWallets(wallets, txn) THEN SaveImage(wallets')
                              ELSE wallet_file
            /\ UNCHANGED wallet_pc

RecibirBloque(bloque) ==
    /\ WalletReady
    /\ utxos' = update_utxo(utxos, bloque)
    /\ wallets' = evento_recibir_bloque(wallets, utxos', bloque)
    /\ wallet_file' = IF \E a \in DOMAIN wallets : BlockPaysAccount(wallets[a], bloque)
                      THEN SaveImage(wallets') ELSE wallet_file
    /\ last_event' = [kind |-> "RecibirBloque", bloque |-> bloque]
    /\ n_events' = n_events + 1
    /\ UNCHANGED <<wallet_pc, now, listener_vars, conn_vars, server_vars>>

Cerrar ==
    /\ WalletReady
    /\ wallet_pc' = "stopped"
    /\ last_event' = [kind |-> "Cerrar"]
    /\ n_events' = n_events + 1
    /\ UNCHANGED <<wallets, utxos, wallet_file, now, listener_vars, conn_vars, server_vars>>

\* the blocks the listener can hand to the wallet: validated by validar_bloque
WalletBlocks ==
    {MinedBlock(NULL_HASH, body, TESTNET_NBITS, 0) : body \in BlockBodies(KnownTxns)}

NextWallet ==
    \/ \E kp \in KeyPairs, alias \in Aliases : AgregarWallet(kp[2], kp[1], alias)
    \/ \E alias \in Aliases : CargarWallet(alias)
    \/ \E alias \in Aliases, amount \in Amounts, label \in Labels,
          address \in Destinations, fee \in Fees :
          RealizarTransferencia(alias, amount, label, address, fee)
    \/ WalletReady /\ \E txn \in KnownTxns : RecibirTxn(txn)
    \/ WalletReady /\ \E bloque \in WalletBlocks : RecibirBloque(bloque)
    \/ Cerrar

SpecWallet == InitWallet /\ [][NextWallet]_vars


(***************************************************************************)
(* Properties of the wallet.                                               *)
(***************************************************************************)
BlockTxids(bloque) == {obtain_tx_id(bloque.txns[t]) : t \in 1..Len(bloque.txns)}

\* the latest loop iteration handled event kind
Handled(kind) == last_event'.kind = kind /\ n_events' = n_events + 1

InBlock(info, bloque) == obtain_tx_id(info.txn) \in BlockTxids(bloque)
NotInBlock(info, bloque) == obtain_tx_id(info.txn) \notin BlockTxids(bloque)

\* C2: when RecibirBloque(B) is handled, every Sending entry whose txid is in
\* B leaves the Sending list and appears in the Sent list with B's hash,
\* whatever the outputs of that transaction are.
C2_SendingMovedToSent ==
    [][Handled("RecibirBloque") =>
        \A a \in DOMAIN wallets :
            LET B == last_event'.bloque
                old == wallets[a].sending_txn
            IN  /\ \A i \in 1..Len(wallets'[a].sending_txn) :
                       NotInBlock(wallets'[a].sending_txn[i], B)
                /\ \A i \in 1..Len(old) :
                       InBlock(old[i], B) =>
                       \E j \in 1..Len(wallets'[a].sent_txn) :
                           wallets'[a].sent_txn[j] =
                               [old[i] EXCEPT !.txn_type = "Sent",
                                              !.bloque = obtain_blockhash(B.block_header)]]_vars

\* C3: after RecibirBloque(B) is handled, no account keeps a Receiving entry
\* whose txid is in B.
C3_NoReceivingLeft ==
    last_event.kind = "RecibirBloque" =>
        \A a \in DOMAIN wallets : \A i \in 1..Len(wallets[a].receiving_txn) :
            NotInBlock(wallets[a].receiving_txn[i], last_event.bloque)

\* C4: handling the same RecibirBloque(B) a second time in a row changes
\* neither the accounts nor the UTXO map.
C4_RecibirBloqueIdempotent ==
    [][(/\ last_event.kind = "RecibirBloque"
        /\ Handled("RecibirBloque")
        /\ last_event'.bloque = last_event.bloque)
       => (wallets' = wallets /\ utxos' = utxos)]_vars

\* C5: a transfer whose amount plus fee exceeds the sender's balance fails
\* with WalletSinFondosSuficientes and has no effect: nothing is written to
\* the upstream socket, and the accounts, the UTXO map and the wallets file
\* are unchanged.
C5_InsufficientFundsNoEffect ==
    [][(/\ Handled("RealizarTransferencia")
        /\ last_event'.alias \in DOMAIN wallets
        /\ last_event'.amount + last_event'.fee > wallets[last_event'.alias].balance)
       => (/\ last_event'.error = "WalletSinFondosSuficientes"
           /\ UNCHANGED <<wallets, utxos, wallet_file, conn_out>>)]_vars

C5_Witness ==
    /\ last_event.kind = "RealizarTransferencia"
    /\ last_event.alias \in DOMAIN wallets
    /\ last_event.amount + last_event.fee > wallets[last_event.alias].balance
    /\ wallets[last_event.alias].balance > 0
    /\ last_event.error = "WalletSinFondosSuficientes"

TransferSucceeded ==
    last_event.kind = "RealizarTransferencia" /\ last_event.error = "none"

C7_TransferEntries ==
    [][(Handled("RealizarTransferencia") /\ last_event'.error = "none") =>
        /\ DOMAIN wallets' = DOMAIN wallets
        /\ \A a \in DOMAIN wallets :
            LET e == last_event'
            IN  /\ wallets'[a].sending_txn =
                       IF a = e.alias
                       THEN Append(wallets[a].sending_txn,
                                TxnInfo_new(e.txn, "Sending", e.label, e.amount + e.fee,
                                            e.address, NO_BLOCK))
                       ELSE wallets[a].sending_txn
                /\ wallets'[a].receiving_txn =
                       IF wallets[a].public_address = e.address
                       THEN Append(wallets[a].receiving_txn,
                                TxnInfo_new(e.txn, "Receiving", e.label, e.amount,
                                            wallets[e.alias].public_address, NO_BLOCK))
                       ELSE wallets[a].receiving_txn
                /\ wallets'[a].sent_txn = wallets[a].sent_txn
                /\ wallets'[a].saved_received_txn = wallets[a].saved_received_txn]_vars


(***************************************************************************)
(* The listener thread: validar_bloque on the payload of a block message.  *)
(***************************************************************************)
\* n_bits with exponent 1: the mantissa does not fit in the target array
LOW_EXPONENT_NBITS == 16777216 + 65535

\* the transaction lists of the block messages a peer can send
ListenerBodies == {<<>>} \cup BlockBodies(ExtTxns)

\* payloads of the block messages a peer can send: serialised blocks with a
\* right or wrong Merkle root, a passing or failing nonce, a usable or
\* unusable n_bits, bytes that are not a block, and the first two blocks of
\* the chain on top of the genesis block
BlockPayloads ==
    {[kind |-> "garbage"]} \cup
    {[kind |-> "block",
      block |-> [block_header |-> [previous_block_header_hash |-> NULL_HASH,
                                   merkle_root_hash |-> root,
                                   time |-> 1,
                                   n_bits |-> n_bits,
                                   nonce |-> nonce],
                 txns |-> body]] :
        body \in ListenerBodies, nonce \in {0, 1},
        n_bits \in {TESTNET_NBITS, LOW_EXPONENT_NBITS},
        root \in {NULL_HASH, <<"node", <<NULL_HASH, NULL_HASH>>>>}} \cup
    {[kind |-> "block",
      block |-> MinedBlock(NULL_HASH, body, n_bits, nonce)] :
        body \in BlockBodies(ExtTxns), nonce \in {0, 1},
        n_bits \in {TESTNET_NBITS, LOW_EXPONENT_NBITS}} \cup
    {[kind |-> "block", block |-> b] : b \in {ChainBlock1, ChainBlock2}}

\* SerializedBlock::from_bytes succeeds
from_bytes_ok(bytes_respuesta) == bytes_respuesta.kind = "block"

\* the header line appended to the headers file: the hex dump of its bytes
HeaderLine(block_header) == <<"hex", block_header>>

\* the condition under which validar_bloque adds the block
bloque_aceptado_o(bloque) ==
    proof_of_work(bloque.block_header) \/ proof_of_inclusion(bloque)

bloque_aceptado(bloque) ==
    proof_of_work(bloque.block_header) /\ proof_of_inclusion(bloque)

\* guardar_bloque_memoria : the file named after the block hash holds the bytes
guardar_bloque_memoria(dir, bloque) ==
    [name \in (DOMAIN dir) \cup {obtain_blockhash(bloque.block_header)} |->
        IF name = obtain_blockhash(bloque.block_header) THEN bloque ELSE dir[name]]

\* how far the accepting branch gets before one of its `?` returns an error
Outcomes == {"ok", "gui_closed", "headers_file_error", "block_file_error", "wallet_closed"}

ListenerDies ==
    /\ listener_pc' = "dead"
    /\ UNCHANGED <<headers, headers_file, blocks_dir, wallet_chan, gui_chan>>

\* validar_bloque on what it shares with the other threads
validar_bloque_paso(bytes_respuesta, outcome) ==
    /\ n_blocks' = n_blocks + 1
    /\ last_block' = bytes_respuesta
    /\ IF ~from_bytes_ok(bytes_respuesta)
       THEN ListenerDies
       ELSE LET bloque == bytes_respuesta.block
                header_bloque == bloque.block_header
            IN  IF proof_of_work_panics(header_bloque)
                THEN ListenerDies
                ELSE IF proof_of_work(header_bloque) /\ Len(bloque.txns) = 0
                THEN \* generar_merkle_tree_root_hash never reaches its base case
                     ListenerDies
                ELSE IF bloque_aceptado(bloque)
                THEN /\ gui_chan' = IF outcome = "gui_closed" THEN gui_chan
                                    ELSE Append(gui_chan,
                                           [kind |-> "CargarBloques",
                                            headers |-> <<header_bloque>>,
                                            index |-> Len(headers)])
                     /\ headers_file' = IF outcome \in {"gui_closed", "headers_file_error"}
                                        THEN headers_file
                                        ELSE Append(headers_file, HeaderLine(header_bloque))
                     /\ headers' = IF outcome \in {"gui_closed", "headers_file_error"}
                                   THEN headers
                                   ELSE Append(headers, header_bloque)
                     /\ blocks_dir' = IF outcome \in {"ok", "wallet_closed"}
                                      THEN guardar_bloque_memoria(blocks_dir, bloque)
                                      ELSE blocks_dir
                     /\ wallet_chan' = IF outcome = "ok"
                                       THEN Append(wallet_chan,
                                              [kind |-> "RecibirBloque", bloque |-> bloque])
                                       ELSE wallet_chan
                     /\ listener_pc' = IF outcome = "ok" THEN "running" ELSE "dead"
                ELSE /\ outcome = "ok"
                     /\ UNCHANGED <<headers, headers_file, blocks_dir, wallet_chan,
                                    gui_chan, listener_pc>>

\* validar_bloque called by the listener on the payload of a block message
validar_bloque(bytes_respuesta, outcome) ==
    /\ listener_pc = "running"
    /\ n_blocks < MaxBlocks
    /\ validar_bloque_paso(bytes_respuesta, outcome)
    /\ UNCHANGED <<wallet_vars, conn_vars, server_vars>>

InitListener ==
    /\ InitWalletPart(<<>>)
    /\ InitListenerPart
    /\ ConnectedConnPart
    /\ InitServerPart(<<TESNET_GENESIS_HEADER>>)

NextListener ==
    \E bytes_respuesta \in BlockPayloads, outcome \in Outcomes :
        validar_bloque(bytes_respuesta, outcome)

SpecListener == InitListener /\ [][NextListener]_vars

\* the block of the latest block message passes both checks
LastBlockPasses(payload) ==
    /\ payload.kind = "block"
    /\ ~proof_of_work_panics(payload.block.block_header)
    /\ proof_of_work(payload.block.block_header)
    /\ Len(payload.block.txns) > 0
    /\ proof_of_inclusion(payload.block)

\* C1: a block received by the listener is stored and forwarded only if it
\* passes the proof of work and the proof of inclusion; when a check fails the
\* headers vector, the headers file, the blocks directory and the wallet
\* channel are left as they were, and what is stored is that block.
C1_StoredOnlyIfValid ==
    [][n_blocks' = n_blocks + 1 =>
        /\ ~LastBlockPasses(last_block')
              => UNCHANGED <<headers, headers_file, blocks_dir, wallet_chan>>
        /\ headers' # headers
              => headers' = Append(headers, last_block'.block.block_header)
        /\ headers_file' # headers_file
              => headers_file' = Append(headers_file,
                                        HeaderLine(last_block'.block.block_header))
        /\ blocks_dir' # blocks_dir
              => /\ DOMAIN blocks_dir' =
                      (DOMAIN blocks_dir) \cup {obtain_blockhash(last_block'.block.block_header)}
                 /\ blocks_dir'[obtain_blockhash(last_block'.block.block_header)]
                      = last_block'.block
        /\ wallet_chan' # wallet_chan
              => wallet_chan' = Append(wallet_chan,
                                   [kind |-> "RecibirBloque", bloque |-> last_block'.block])
      ]_vars

\* a block with a wrong Merkle root was refused after another was stored
C1_Witness ==
    /\ Len(headers) > 1
    /\ listener_pc = "running"
    /\ last_block.kind = "block"
    /\ Len(last_block.block.txns) > 0
    /\ proof_of_work(last_block.block.block_header)
    /\ ~proof_of_inclusion(last_block.block)
    /\ Len(wallet_chan) = Len(headers) - 1


(***************************************************************************)
(* Connections: the outbound handshake (handshake, version, verack), the   *)
(* inbound one (recibir_handshake) and the client handler.                 *)
(***************************************************************************)
Commands(msgs) == [i \in 1..Len(msgs) |-> msgs[i].command]

\* pong that drops the payload of the ping
pong_vacio(bytes_pong_respuesta) == Msg("pong", Raw(""))

\* pong : the message written for a ping, carrying the ping's payload
pong(bytes_pong_respuesta) == Msg("pong", bytes_pong_respuesta)

\* handle_message without its notfound arm
handle_message_sin_notfound(comando, bytes_mensaje_respuesta, comando_esperado) ==
    IF comando = "ping"
    THEN [reply |-> <<pong(bytes_mensaje_respuesta)>>, error |-> "none"]
    ELSE [reply |-> <<>>, error |-> "none"]

\* handle_message answering every message with a pong
handle_message_eco(comando, bytes_mensaje_respuesta, comando_esperado) ==
    [reply |-> <<pong(bytes_mensaje_respuesta)>>, error |-> "none"]

\* handle_message : what is written back for a message that is not the
\* awaited one, and the error returned
handle_message(comando, bytes_mensaje_respuesta, comando_esperado) ==
    CASE comando = "ping" -> [reply |-> <<pong(bytes_mensaje_respuesta)>>, error |-> "none"]
      [] comando = "notfound" /\ comando_esperado = "block" ->
            [reply |-> <<>>, error |-> "ElNodoNoEncuentraBloquePedido"]
      [] comando = "notfound" /\ comando_esperado = "tx" ->
            [reply |-> <<>>, error |-> "ElNodoNoEncuentraTransaccionPedida"]
      [] OTHER -> [reply |-> <<>>, error |-> "none"]

\* the peer writes a message / closes the connection
PeerSend(c, m) ==
    /\ conn_pc[c] # "none"
    /\ ~conn_closed[c]
    /\ n_peer < MaxPeerMsgs
    /\ conn_in' = [conn_in EXCEPT ![c] = Append(@, m)]
    /\ n_peer' = n_peer + 1
    /\ UNCHANGED <<conn_pc, conn_out, conn_closed, conn_seen, conn_ret,
                   wallet_vars, listener_vars, server_vars>>

PeerClose(c) ==
    /\ conn_pc[c] # "none"
    /\ ~conn_closed[c]
    /\ conn_closed' = [conn_closed EXCEPT ![c] = TRUE]
    /\ UNCHANGED <<conn_pc, conn_in, conn_out, conn_seen, conn_ret, n_peer,
                   wallet_vars, listener_vars, server_vars>>

\* conectar_cliente : where the handler goes with the result of recibir_handshake
conectar_cliente_sin_control(result) == "serving"

conectar_cliente(result) == IF result = "Ok" THEN "serving" ELSE "failed"

\* where a connection goes when its handshake returns an error
FailedPc(c) == IF c = "cl" THEN conectar_cliente("Err") ELSE "failed"

\* write_to_node of a message, then continue at next_pc; on a connection the
\* peer has closed the write may also return an error
WriteThen(c, m, next_pc) ==
    /\ \/ /\ conn_out' = [conn_out EXCEPT ![c] = Append(@, m)]
          /\ conn_pc' = [conn_pc EXCEPT ![c] = next_pc]
       \/ /\ conn_closed[c]
          /\ conn_pc' = [conn_pc EXCEPT ![c] = FailedPc(c)]
          /\ UNCHANGED conn_out
    /\ UNCHANGED <<conn_in, conn_closed, conn_seen, conn_ret, n_peer,
                   wallet_vars, listener_vars, server_vars>>

\* one iteration of handle_specific_message : read_from_node blocks until a
\* message is there or the connection is closed; the awaited command leads
\* to found_pc (to an error when its payload does not parse and the caller
\* parses it), any other goes to handle_message
ReadExpected(c, comando_esperado, found_pc, accept_bad) ==
    /\ UNCHANGED <<conn_closed, n_peer, wallet_vars, listener_vars, server_vars>>
    /\ IF conn_in[c] = <<>>
       THEN /\ conn_closed[c]
            /\ conn_pc' = [conn_pc EXCEPT ![c] = FailedPc(c)]
            /\ conn_ret' = [conn_ret EXCEPT ![c] = Failed("Io")]
            /\ UNCHANGED <<conn_in, conn_out, conn_seen>>
       ELSE LET m == Head(conn_in[c])
                h == handle_message(m.command, m.payload, comando_esperado)
            IN  /\ conn_in' = [conn_in EXCEPT ![c] = Tail(@)]
                /\ conn_seen' = [conn_seen EXCEPT ![c] = Append(@, m)]
                /\ IF m.command = comando_esperado
                   THEN /\ conn_pc' = [conn_pc EXCEPT ![c] =
                               IF m.payload = Raw("bad") /\ ~accept_bad THEN FailedPc(c) ELSE found_pc]
                        /\ conn_ret' = [conn_ret EXCEPT ![c] = Returned(m.payload)]
                        /\ UNCHANGED conn_out
                   ELSE IF h.error # "none"
                   THEN /\ conn_pc' = [conn_pc EXCEPT ![c] = FailedPc(c)]
                        /\ conn_ret' = [conn_ret EXCEPT ![c] = Failed(h.error)]
                        /\ UNCHANGED conn_out
                   ELSE \/ /\ conn_out' = [conn_out EXCEPT ![c] = @ \o h.reply]
                           /\ UNCHANGED <<conn_pc, conn_ret>>
                        \/ \* the write of the pong fails on a closed connection
                           /\ h.reply # <<>>
                           /\ conn_closed[c]
                           /\ conn_pc' = [conn_pc EXCEPT ![c] = FailedPc(c)]
                           /\ conn_ret' = [conn_ret EXCEPT ![c] = Failed("Io")]
                           /\ UNCHANGED conn_out

\* version : write the version message, then wait for the peer's
version_write ==
    /\ conn_pc["up"] = "send_version"
    /\ WriteThen("up", Msg("version", Raw("ok")), "await_version")

version_read ==
    /\ conn_pc["up"] = "await_version"
    /\ ReadExpected("up", "version", "send_verack", TRUE)

\* verack : write the verack message, then wait for the peer's
verack_write ==
    /\ conn_pc["up"] = "send_verack"
    /\ WriteThen("up", Msg("verack", Raw("")), "await_verack")

verack_read ==
    /\ conn_pc["up"] = "await_verack"
    /\ ReadExpected("up", "verack", "done", TRUE)

\* recibir_version : wait for the client's version, parse it, write ours
recibir_version_read ==
    /\ conn_pc["cl"] = "await_version"
    /\ ReadExpected("cl", "version", "send_version", FALSE)

recibir_version_write ==
    /\ conn_pc["cl"] = "send_version"
    /\ WriteThen("cl", Msg("version", Raw("ok")), "await_verack")

\* recibir_verack : wait for the client's verack, write ours
recibir_verack_read ==
    /\ conn_pc["cl"] = "await_verack"
    /\ ReadExpected("cl", "verack", "send_verack", TRUE)

recibir_verack_write ==
    /\ conn_pc["cl"] = "send_verack"
    /\ WriteThen("cl", Msg("verack", Raw("")), conectar_cliente("Ok"))

(***************************************************************************)
(* The server side: getheaders and getdata of an accepted client.          *)
(***************************************************************************)
MAX_HEADERS_POR_MENSAJE == 2    \* 2000 in the source, scaled to the chains checked
MaxRequests == 1                \* requests a client sends in the server specification
MSG_TX == 1
MSG_BLOCK == 2
LIM_MINIMO_INVENTARIO == 5
HASH_LENGTH == 32

GetHeadersMessage_new(starting_hashes, stopping_hash) ==
    [starting_hashes |-> starting_hashes, stopping_hash |-> stopping_hash]

\* actualizar_headers_hash_height : when the vector is longer than the map,
\* the headers from (0-based) index len_hash - 1 on are inserted again
actualizar_headers_hash_height_sin_actualizar(map, headers_vec) == map

actualizar_headers_hash_height(map, headers_vec) ==
    LET len_hash == Cardinality(DOMAIN map)
    IN  IF Len(headers_vec) > len_hash
        THEN InsertHashHeights(map, headers_vec, len_hash)
        ELSE map

\* the while loop of recibir_getheaders ; header_index is 0-based
RECURSIVE headers_hasta_sin_stop(_, _, _, _, _)
headers_hasta_sin_stop(headers_vec, header_index, max_headers_index, header_hash, stopping_hash) ==
    IF header_index < Len(headers_vec) /\ header_index < max_headers_index
    THEN <<headers_vec[header_index + 1]>> \o
         headers_hasta_sin_stop(headers_vec, header_index + 1, max_headers_index,
                                obtain_blockhash(headers_vec[header_index + 1]), stopping_hash)
    ELSE <<>>

RECURSIVE headers_hasta(_, _, _, _, _)
headers_hasta(headers_vec, header_index, max_headers_index, header_hash, stopping_hash) ==
    IF /\ header_index < Len(headers_vec)
       /\ header_index < max_headers_index
       /\ header_hash # stopping_hash
    THEN <<headers_vec[header_index + 1]>> \o
         headers_hasta(headers_vec, header_index + 1, max_headers_index,
                       obtain_blockhash(headers_vec[header_index + 1]), stopping_hash)
    ELSE <<>>

\* the for loop of recibir_getheaders over the starting hashes, from the i-th
RECURSIVE headers_cliente(_, _, _, _)
headers_cliente(map, headers_vec, getheaders_recibido, i) ==
    IF i > Len(getheaders_recibido.starting_hashes) THEN <<>>
    ELSE LET starting_hash == getheaders_recibido.starting_hashes[i]
         IN  IF starting_hash \in DOMAIN map
             THEN headers_hasta(headers_vec, map[starting_hash] + 1,
                                map[starting_hash] + 1 + MAX_HEADERS_POR_MENSAJE,
                                starting_hash, getheaders_recibido.stopping_hash)
             ELSE headers_cliente(map, headers_vec, getheaders_recibido, i + 1)

\* enviar_headers : the count followed by the headers
enviar_headers(headers_cliente_bytes) ==
    Msg("headers", [count |-> Len(headers_cliente_bytes), headers |-> headers_cliente_bytes])

\* the headers message recibir_getheaders sends, given the updated map
recibir_getheaders(map, headers_vec, getheaders_recibido) ==
    enviar_headers(headers_cliente(map, headers_vec, getheaders_recibido, 1))

\* A digest in the byte order of the wire is the reverse of the one shown in
\* hex: the file name of a block and the txid string are the hex form.
hash_bytes(hex_hash) == <<"le", hex_hash>>
obtain_blockname_from_blockhash(possible_block) == possible_block[2]
obtain_txid_from_inventory(inventory) == inventory[2]

\* an inventory entry: 4 bytes of type followed by the hash
Inventory(tipo, hash) == [tipo |-> tipo, hash |-> hash]
inventory_len(inventory) == 4 + (IF inventory.hash = <<>> THEN 0 ELSE HASH_LENGTH)

\* the Inv struct: the count and the entries
Inv_new(inventories) == [count |-> Len(inventories), inventories |-> inventories]

\* Inv::generar_inventario : the type, then the SHA-256d of the bytes given
generar_inventario(header, tipo_hash) == Inventory(tipo_hash, <<"sha256d", header>>)

\* send_not_found : Inv::new(1, MSG_BLOCK, vec![inventory])
send_not_found(inventory) ==
    Msg("notfound", Inv_new(<<generar_inventario(inventory, MSG_BLOCK)>>))

\* find_txn_in_memory : the first pair of the buffer with the txid
find_txn_in_memory(memory, txid_str) ==
    LET found == {i \in 1..Len(memory) : memory[i][1] = txid_str}
    IN  IF found = {} THEN <<>>
        ELSE <<memory[CHOOSE i \in found : \A j \in found : i <= j]>>

\* respond_getdata_block : what is written to the client for one entry
respond_getdata_block(inventory, dir) ==
    IF inventory_len(inventory) < LIM_MINIMO_INVENTARIO THEN <<>>
    ELSE LET filename == obtain_blockname_from_blockhash(inventory.hash)
         IN  IF filename \in DOMAIN dir
             THEN <<Msg("block", dir[filename])>>
             ELSE <<send_not_found(inventory)>>

\* respond_getdata_txn
respond_getdata_txn(inventory, memory) ==
    IF inventory_len(inventory) < LIM_MINIMO_INVENTARIO THEN <<>>
    ELSE LET op_txn == find_txn_in_memory(memory, obtain_txid_from_inventory(inventory.hash))
         IN  IF op_txn # <<>>
             THEN <<Msg("tx", op_txn[1][2])>>
             ELSE <<send_not_found(inventory)>>

\* recibir_getdata : the entries are answered one by one, in order
RECURSIVE recibir_getdata(_, _, _, _)
recibir_getdata(inventories, dir, memory, i) ==
    IF i > Len(inventories) THEN <<>>
    ELSE LET inventory == inventories[i]
             respuesta == IF inventory.tipo = MSG_BLOCK
                          THEN respond_getdata_block(inventory, dir)
                          ELSE IF inventory.tipo = MSG_TX
                          THEN respond_getdata_txn(inventory, memory)
                          ELSE <<>>
         IN  respuesta \o recibir_getdata(inventories, dir, memory, i + 1)

\* the messages of s at the positions kept, in order
RECURSIVE Keep(_, _)
Keep(s, kept) ==
    IF s = <<>> THEN <<>>
    ELSE (IF Len(s) \in kept THEN Keep(SubSeq(s, 1, Len(s) - 1), kept) \o <<s[Len(s)]>>
          ELSE Keep(SubSeq(s, 1, Len(s) - 1), kept))

\* what reaches the socket of the replies to a getdata: every write to a
\* connection the client has closed may fail, and the failure is only logged
Written(c, replies) ==
    IF conn_closed[c] THEN {Keep(replies, kept) : kept \in SUBSET (1..Len(replies))}
    ELSE {replies}

\* replies of the handler to a request: headers for getheaders; a block, a
\* transaction or notfound for getdata
ServedCommands == {"headers", "block", "tx", "notfound"}

\* one iteration of handlear_peticiones_cliente
handlear_peticiones_cliente ==
    /\ conn_pc["cl"] = "serving"
    /\ UNCHANGED <<conn_closed, n_peer, wallet_vars, listener_vars,
                   txn_memory, client_connections, recv_notif, last_notif, last_call, config, pool>>
    /\ IF conn_in["cl"] = <<>>
       THEN /\ conn_closed["cl"]
            /\ conn_pc' = [conn_pc EXCEPT !["cl"] = "ended"]
            /\ UNCHANGED <<conn_in, conn_out, conn_seen, conn_ret, headers_hash_height>>
       ELSE LET m == Head(conn_in["cl"])
            IN  /\ conn_in' = [conn_in EXCEPT !["cl"] = Tail(@)]
                /\ conn_seen' = [conn_seen EXCEPT !["cl"] = Append(@, m)]
                /\ UNCHANGED conn_ret
                /\ CASE m.command = "getheaders" ->
                            /\ headers_hash_height' =
                                   actualizar_headers_hash_height(headers_hash_height, headers)
                            /\ \/ /\ conn_out' = [conn_out EXCEPT !["cl"] =
                                        Append(@, recibir_getheaders(headers_hash_height',
                                                                     headers, m.payload))]
                                  /\ UNCHANGED conn_pc
                               \/ \* the write fails and ends the handler
                                  /\ conn_closed["cl"]
                                  /\ conn_pc' = [conn_pc EXCEPT !["cl"] = "ended"]
                                  /\ UNCHANGED conn_out
                     [] m.command = "getdata" ->
                            /\ \E written \in Written("cl",
                                      recibir_getdata(m.payload.inventories, blocks_dir,
                                                      txn_memory, 1)) :
                                   conn_out' = [conn_out EXCEPT !["cl"] = @ \o written]
                            /\ UNCHANGED <<conn_pc, headers_hash_height>>
                     [] OTHER -> UNCHANGED <<conn_out, conn_pc, headers_hash_height>>

\* messages a peer can send; a version whose payload is "bad" does not parse
PeerMessages ==
    {Msg("version", Raw("ok")), Msg("version", Raw("bad")), Msg("verack", Raw("")), Msg("ping", Raw(""))}

\* requests a peer can send
PeerRequests ==
    {Msg("getheaders", GetHeadersMessage_new(<<>>, NULL_HASH)),
     Msg("getdata", Inv_new(<<Inventory(MSG_BLOCK,
                                        hash_bytes(obtain_blockhash(TESNET_GENESIS_HEADER)))>>))}

InitHandshake ==
    /\ InitWalletPart(<<>>)
    /\ InitListenerPart
    /\ InitConnPart
    /\ InitServerPart(<<TESNET_GENESIS_HEADER>>)

NodeStep ==
    \/ version_write
    \/ version_read
    \/ verack_write
    \/ verack_read
    \/ recibir_version_read
    \/ recibir_version_write
    \/ recibir_verack_read
    \/ recibir_verack_write
    \/ handlear_peticiones_cliente

NextHandshake ==
    \/ \E c \in Conn, m \in PeerMessages : PeerSend(c, m)
    \/ \E c \in Conn, m \in PeerRequests : PeerSend(c, m)
    \/ \E c \in Conn : PeerClose(c)
    \/ version_write
    \/ version_read
    \/ verack_write
    \/ verack_read
    \/ recibir_version_read
    \/ recibir_version_write
    \/ recibir_verack_read
    \/ recibir_verack_write
    \/ handlear_peticiones_cliente

SpecHandshake == InitHandshake /\ [][NextHandshake]_vars

\* the threads of the node keep running: a step that can be taken is taken
SpecHandshakeFair == SpecHandshake /\ WF_vars(NodeStep)


(***************************************************************************)
(* Properties of the handshakes.                                           *)
(***************************************************************************)
IsPrefix(s, t) == Len(s) <= Len(t) /\ \A i \in 1..Len(s) : s[i] = t[i]

Count(s, x) == Cardinality({i \in 1..Len(s) : s[i] = x})

\* x occurs in s, and y occurs after it
InOrder(s, x, y) == \E i, j \in 1..Len(s) : i < j /\ s[i] = x /\ s[j] = y

IsNotPong(comando) == comando # "pong"

\* C8 (as stated): in the outbound handshake the node writes version first,
\* writes verack only after it has received the peer's version, reports the
\* handshake complete only after it has received the peer's verack, and sends
\* nothing else on that connection before the handshake returns.
C8_OutboundHandshakeOnly ==
    LET out == Commands(conn_out["up"])
        seen == Commands(conn_seen["up"])
    IN  /\ IsPrefix(out, <<"version", "verack">>)
        /\ "verack" \in Range(out) => "version" \in Range(seen)
        /\ conn_pc["up"] = "done" => InOrder(seen, "version", "verack")

\* C8 (amended): as above, except that the node also writes a pong for each
\* ping it receives while it waits; apart from those pongs it sends nothing
\* but version and verack before the handshake returns.
C8_OutboundHandshakeAndPongs ==
    LET out == Commands(conn_out["up"])
        seen == Commands(conn_seen["up"])
    IN  /\ out # <<>> => out[1] = "version"
        /\ IsPrefix(SelectSeq(out, IsNotPong), <<"version", "verack">>)
        /\ Count(out, "pong") <= Count(seen, "ping")
        /\ "verack" \in Range(out) => "version" \in Range(seen)
        /\ conn_pc["up"] = "done" =>
              /\ InOrder(seen, "version", "verack")
              /\ SelectSeq(out, IsNotPong) = <<"version", "verack">>

\* the handshake returned after the peer's ping was answered
C8_Witness ==
    /\ conn_pc["up"] = "done"
    /\ "pong" \in Range(Commands(conn_out["up"]))

\* C9: for an accepted client the server writes its version only after it
\* has received the client's version and its verack only after the client's
\* verack; it answers no getheaders or getdata before it has written that
\* verack, and once the handshake has failed the handler writes nothing more.
C9_InboundHandshakeBeforeServing ==
    /\ [](LET out == Commands(conn_out["cl"])
              seen == Commands(conn_seen["cl"])
          IN  /\ "version" \in Range(out) => "version" \in Range(seen)
              /\ "verack" \in Range(out) => InOrder(seen, "version", "verack")
              /\ \A i \in 1..Len(out) :
                    out[i] \in ServedCommands =>
                        \E j \in 1..(i - 1) : out[j] = "verack"
              /\ conn_pc["cl"] = "failed" => Range(out) \cap ServedCommands = {})
    /\ [][conn_pc["cl"] = "failed" =>
             (conn_pc'["cl"] = "failed" /\ conn_out'["cl"] = conn_out["cl"])]_vars

\* the handshake failed after the client had sent a request
C9_Witness ==
    /\ conn_pc["cl"] = "failed"
    /\ "version" \in Range(Commands(conn_seen["cl"]))
    /\ Range(Commands(conn_seen["cl"])) \cap {"getheaders", "getdata"} # {}

\* commands of all the messages the peer has sent on a connection
PeerSent(c) == Range(Commands(conn_seen[c])) \cup Range(Commands(conn_in[c]))

\* C10: if the peer never sends the version or the verack the node waits
\* for, the handshake (outbound or inbound) eventually ends with an error;
\* the node never waits forever.
C10_HandshakeNeverHangs ==
    \A c \in Conn :
        <>(conn_pc[c] = "failed" \/ {"version", "verack"} \subseteq PeerSent(c))


(***************************************************************************)
(* handle_specific_message on the upstream connection, as called by the    *)
(* listener (inv, block, tx) and by the headers download (headers).        *)
(***************************************************************************)
PumpCommands == {"inv", "block", "tx", "headers"}

\* messages the upstream peer can send while the node waits
PumpMessages ==
    {Msg("ping", Raw("n1")), Msg("ping", Raw("n2")), Msg("tx", Raw("t1")), Msg("block", Raw("b1")),
     Msg("notfound", Raw("i1")), Msg("inv", Raw("i1")), Msg("headers", Raw("h1"))}

AwaitPc(comando_esperado) ==
    [inv |-> "await_inv", block |-> "await_block", tx |-> "await_tx",
     headers |-> "await_headers"][comando_esperado]

ReturnedPc(comando_esperado) ==
    [inv |-> "returned_inv", block |-> "returned_block", tx |-> "returned_tx",
     headers |-> "returned_headers"][comando_esperado]

\* one iteration of the loop of handle_specific_message(comando_esperado)
handle_specific_message(comando_esperado) ==
    /\ conn_pc["up"] = AwaitPc(comando_esperado)
    /\ ReadExpected("up", comando_esperado, ReturnedPc(comando_esperado), TRUE)

InitPump ==
    /\ InitWalletPart(<<>>)
    /\ InitListenerPart
    /\ InitServerPart(<<TESNET_GENESIS_HEADER>>)
    /\ \E comando_esperado \in PumpCommands :
          conn_pc = [c \in Conn |-> IF c = "up" THEN AwaitPc(comando_esperado) ELSE "none"]
    /\ conn_in = [c \in Conn |-> <<>>]
    /\ conn_out = [c \in Conn |-> <<>>]
    /\ conn_closed = [c \in Conn |-> FALSE]
    /\ conn_seen = [c \in Conn |-> <<>>]
    /\ conn_ret = [c \in Conn |-> NoReturn]
    /\ n_peer = 0

NextPump ==
    \/ \E m \in PumpMessages : PeerSend("up", m)
    \/ PeerClose("up")
    \/ \E comando_esperado \in PumpCommands : handle_specific_message(comando_esperado)

SpecPump == InitPump /\ [][NextPump]_vars

IsPing(m) == m.command = "ping"

\* the pongs owed for the pings of a sequence of messages, in order
PongsFor(msgs) ==
    LET pings == SelectSeq(msgs, IsPing)
    IN  [i \in 1..Len(pings) |-> Msg("pong", pings[i].payload)]

\* C11: handle_specific_message(expected) returns the payload of the first
\* received message whose command is expected; the messages before it are
\* consumed whole and in order, each earlier ping is answered by exactly one
\* pong with the same payload before the next message is read, and each
\* earlier tx or block is dropped without a reply.
C11_PumpReturnsFirstMatch ==
    /\ [](\A comando_esperado \in PumpCommands :
            LET seen == conn_seen["up"]
                n == Len(seen)
            IN  /\ conn_pc["up"] = AwaitPc(comando_esperado) =>
                      /\ \A i \in 1..n : seen[i].command # comando_esperado
                      /\ conn_out["up"] = PongsFor(seen)
                      /\ conn_ret["up"] = NoReturn
                /\ conn_pc["up"] = ReturnedPc(comando_esperado) =>
                      /\ n > 0
                      /\ seen[n].command = comando_esperado
                      /\ \A i \in 1..(n - 1) : seen[i].command # comando_esperado
                      /\ conn_ret["up"] = Returned(seen[n].payload)
                      /\ conn_out["up"] = PongsFor(SubSeq(seen, 1, n - 1)))
    /\ [][conn_seen'["up"] # conn_seen["up"] =>
             /\ conn_in["up"] # <<>>
             /\ conn_seen'["up"] = Append(conn_seen["up"], Head(conn_in["up"]))
             /\ conn_in'["up"] = Tail(conn_in["up"])]_vars

\* a block was returned after a ping was answered and a tx was dropped
C11_Witness ==
    /\ conn_pc["up"] = ReturnedPc("block")
    /\ Commands(conn_seen["up"]) \in {<<"ping", "tx", "block">>, <<"tx", "ping", "block">>}
    /\ Len(conn_out["up"]) = 1

\* the node reads a notfound while it waits for comando_esperado
ReadsNotfound(comando_esperado) ==
    /\ conn_pc["up"] = AwaitPc(comando_esperado)
    /\ conn_seen'["up"] # conn_seen["up"]
    /\ conn_in["up"] # <<>>
    /\ Head(conn_in["up"]).command = "notfound"

NotfoundError(comando_esperado) ==
    IF comando_esperado = "block" THEN "ElNodoNoEncuentraBloquePedido"
    ELSE "ElNodoNoEncuentraTransaccionPedida"

\* the call has ended with an error and reads nothing more
AbortsWith(error) ==
    /\ conn_pc'["up"] = "failed"
    /\ conn_ret'["up"] = Failed(error)

\* C12 (as stated): whenever a notfound arrives while handle_specific_message
\* waits for its expected command, whatever that command is, the call aborts
\* at once with the peer-does-not-have error and reads no further message.
C12_NotfoundAlwaysAborts ==
    [][(\A comando_esperado \in PumpCommands :
            ReadsNotfound(comando_esperado) =>
                \E error \in {NotfoundError("block"), NotfoundError("tx")} : AbortsWith(error))
       /\ (conn_pc["up"] = "failed" => conn_seen'["up"] = conn_seen["up"])]_vars

\* C12 (amended): a notfound that arrives while a block or a tx is awaited
\* aborts the call at once with the error of that kind, and nothing more is
\* read; a notfound that arrives while another command is awaited is
\* dropped without a reply and the wait goes on.
C12_NotfoundAbortsBlockAndTx ==
    [][(\A comando_esperado \in PumpCommands :
            ReadsNotfound(comando_esperado) =>
                IF comando_esperado \in {"block", "tx"}
                THEN AbortsWith(NotfoundError(comando_esperado))
                ELSE UNCHANGED <<conn_pc, conn_out, conn_ret>>)
       /\ (conn_pc["up"] = "failed" => conn_seen'["up"] = conn_seen["up"])]_vars

\* the wait for a tx was aborted by a notfound with a message still unread
C12_Witness ==
    /\ conn_pc["up"] = "failed"
    /\ conn_ret["up"] = Failed(NotfoundError("tx"))
    /\ conn_in["up"] # <<>>


(***************************************************************************)
(* The server answering an accepted client while the listener goes on      *)
(* adding blocks.                                                          *)
(***************************************************************************)
HashOf(bloque) == obtain_blockhash(bloque.block_header)

\* locators and stop hashes of the getheaders a client can send
Locators ==
    {<<>>, <<HashOf(ForeignBlock)>>,
     <<obtain_blockhash(TESNET_GENESIS_HEADER)>>,
     <<HashOf(ForeignBlock), HashOf(ChainBlock1)>>,
     <<HashOf(ChainBlock3), obtain_blockhash(TESNET_GENESIS_HEADER)>>}
StopHashes == {NULL_HASH, HashOf(ChainBlock1)}

\* inventories of the getdata a client can send: blocks on disk or not,
\* transactions in the buffer or not, an entry cut short, an unknown type
Inventories ==
    {<<Inventory(MSG_BLOCK, hash_bytes(HashOf(ChainBlock2)))>>,
     <<Inventory(MSG_BLOCK, hash_bytes(HashOf(ChainBlock1)))>>,
     <<Inventory(MSG_TX, hash_bytes(obtain_tx_id(E1)))>>,
     <<Inventory(MSG_BLOCK, hash_bytes(HashOf(ChainBlock3))),
       Inventory(MSG_TX, hash_bytes(obtain_tx_id(E2)))>>,
     <<Inventory(MSG_BLOCK, <<>>), Inventory(3, hash_bytes(obtain_tx_id(E1)))>>}

ServerRequests ==
    {Msg("getheaders", GetHeadersMessage_new(l, s)) : l \in Locators, s \in StopHashes} \cup
    {Msg("getdata", Inv_new(i)) : i \in Inventories}

\* blocks the upstream peer announces while the server runs: the next ones
\* of the chain, each after the one before
ServerBlockPayloads ==
    {[kind |-> "block", block |-> b] : b \in {ChainBlock3, ChainBlock4}}

ExtendsTip(bytes_respuesta) ==
    bytes_respuesta.block.block_header.previous_block_header_hash
        = obtain_blockhash(headers[Len(headers)])

\* the downloaded chain, the blocks on disk from the configured date on, and
\* a client that has completed the handshake
InitServer ==
    /\ InitWalletPart(<<>>)
    /\ headers = <<TESNET_GENESIS_HEADER, ChainBlock1.block_header, ChainBlock2.block_header>>
    /\ headers_file = <<HeaderLine(ChainBlock1.block_header), HeaderLine(ChainBlock2.block_header)>>
    /\ blocks_dir = guardar_bloque_memoria(<<>>, ChainBlock2)
    /\ wallet_chan = <<>>
    /\ gui_chan = <<>>
    /\ listener_pc = "running"
    /\ last_block = [kind |-> "none"]
    /\ n_blocks = 0
    /\ conn_pc = [c \in Conn |-> IF c = "up" THEN "done" ELSE "serving"]
    /\ conn_in = [c \in Conn |-> <<>>]
    /\ conn_out = [c \in Conn |-> <<Msg("version", Raw("ok")), Msg("verack", Raw(""))>>]
    /\ conn_closed = [c \in Conn |-> FALSE]
    /\ conn_seen = [c \in Conn |-> <<Msg("version", Raw("ok")), Msg("verack", Raw(""))>>]
    /\ conn_ret = [c \in Conn |-> Returned(Raw(""))]
    /\ n_peer = 0
    /\ headers_hash_height = obtener_hash_height_headers(headers)
    /\ txn_memory \in {<<>>, <<<<obtain_tx_id(E1), E1>>>>}
    /\ client_connections = [a \in {"cl"} |-> [closed |-> FALSE, out |-> <<>>]]
    /\ recv_notif = <<>>
    /\ last_notif = [kind |-> "none"]
    /\ last_call = [fn |-> "none"]
    /\ config = DefaultConfig
    /\ pool = NoPool

ClientePide(m) ==
    /\ n_peer < MaxRequests
    /\ PeerSend("cl", m)

NextServer ==
    \/ \E m \in ServerRequests : ClientePide(m)
    \/ ClientePide(Msg("ping", Raw("")))
    \/ PeerClose("cl")
    \/ handlear_peticiones_cliente
    \/ \E bytes_respuesta \in ServerBlockPayloads :
          ExtendsTip(bytes_respuesta) /\ validar_bloque(bytes_respuesta, "ok")

SpecServer == InitServer /\ [][NextServer]_vars

\* the handler reads a request with the command and writes its answer
Answers(comando) ==
    /\ conn_pc["cl"] = "serving"
    /\ conn_in["cl"] # <<>>
    /\ Head(conn_in["cl"]).command = comando
    /\ conn_seen'["cl"] # conn_seen["cl"]
    /\ Len(conn_out'["cl"]) > Len(conn_out["cl"])

Request == Head(conn_in["cl"]).payload
Reply == conn_out'["cl"][Len(conn_out["cl"]) + 1]

\* positions in the headers vector of the header with the hash
PositionsOf(header_hash) ==
    {k \in 1..Len(headers) : obtain_blockhash(headers[k]) = header_hash}

\* index of the first locator hash that is the hash of a header, 0 if none
FirstKnownLocator(starting_hashes) ==
    LET known == {i \in 1..Len(starting_hashes) : PositionsOf(starting_hashes[i]) # {}}
    IN  IF known = {} THEN 0 ELSE CHOOSE i \in known : \A j \in known : i <= j

\* C13: answering getheaders, the server starts from the first locator hash
\* (in the order sent) that is the hash of one of its headers and returns the
\* headers that immediately follow it, at most MAX_HEADERS_POR_MENSAJE of
\* them and no fewer unless the vector ends or the stop hash is met, with a
\* count equal to the number returned; with no known locator the count is 0.
C13_GetHeadersFromFirstLocator ==
    [][Answers("getheaders") =>
         LET first == FirstKnownLocator(Request.starting_hashes)
             sent == Reply.payload.headers
             n == Len(sent)
         IN  /\ Reply.command = "headers"
             /\ Reply.payload.count = n
             /\ n <= MAX_HEADERS_POR_MENSAJE
             /\ first = 0 => n = 0
             /\ first # 0 =>
                  \E k \in PositionsOf(Request.starting_hashes[first]) :
                     /\ k + n <= Len(headers)
                     /\ sent = SubSeq(headers, k + 1, k + n)
                     /\ \/ n = MAX_HEADERS_POR_MENSAJE
                        \/ k + n = Len(headers)
                        \/ Request.stopping_hash = Request.starting_hashes[first]
                        \/ n > 0 /\ obtain_blockhash(sent[n]) = Request.stopping_hash]_vars

\* a getheaders whose first locator is unknown and whose second is known was
\* answered with as many headers as one message holds, more being there,
\* after the listener had added a block
C13_Witness ==
    /\ Len(headers) > 3
    /\ Len(conn_seen["cl"]) > 2
    /\ conn_seen["cl"][Len(conn_seen["cl"])].command = "getheaders"
    /\ LET m == conn_seen["cl"][Len(conn_seen["cl"])]
       IN  /\ m.command = "getheaders"
           /\ Len(m.payload.starting_hashes) = 2
           /\ m.payload.starting_hashes[2] = HashOf(ChainBlock1)
           /\ m.payload.stopping_hash = NULL_HASH
    /\ Len(conn_out["cl"]) > 2
    /\ LET r == conn_out["cl"][Len(conn_out["cl"])]
       IN  /\ r.command = "headers"
           /\ r.payload.count = MAX_HEADERS_POR_MENSAJE
           /\ r.payload.headers[1] = ChainBlock2.block_header

NewReplies == SubSeq(conn_out'["cl"], Len(conn_out["cl"]) + 1, Len(conn_out'["cl"]))

\* the entry asks for a block that is not on disk or for a transaction that
\* is not in the buffer of recent transactions
Missing(inventory) ==
    /\ inventory.hash # <<>>
    /\ \/ /\ inventory.tipo = MSG_BLOCK
          /\ obtain_blockname_from_blockhash(inventory.hash) \notin DOMAIN blocks_dir
       \/ /\ inventory.tipo = MSG_TX
          /\ find_txn_in_memory(txn_memory, obtain_txid_from_inventory(inventory.hash)) = <<>>

\* C15: when a getdata asks for a block that is not on disk or a transaction
\* that is not in the recent-transactions buffer, the server replies with a
\* notfound whose inventory entry is the requested entry, type and hash.
C15_NotFoundEchoesEntry ==
    [][(Answers("getdata") /\ ~conn_closed["cl"]) =>
         \A i \in 1..Len(Request.inventories) :
            Missing(Request.inventories[i]) =>
               \E j \in 1..Len(NewReplies) :
                  /\ NewReplies[j].command = "notfound"
                  /\ NewReplies[j].payload.inventories = <<Request.inventories[i]>>]_vars


(***************************************************************************)
(* The notifier: envio_notificaciones_cliente and the registry of clients. *)
(***************************************************************************)
Clients == {"c1", "c2"}     \* addresses clients connect from

\* the invs the listener forwards: a transaction and a block it received
NotifiedInvs ==
    {Inv_new(<<Inventory(MSG_TX, hash_bytes(obtain_tx_id(E1)))>>),
     Inv_new(<<Inventory(MSG_BLOCK, hash_bytes(HashOf(ChainBlock1)))>>)}

\* the loop over the registry in the iteration order of the HashMap, the
\* writes to the clients of fails returning an error
notificar_hasta_fallo(order, fails) ==
    LET failing == {i \in 1..Len(order) : order[i] \in fails}
        last == IF failing = {} THEN Len(order)
                ELSE CHOOSE i \in failing : \A j \in failing : i <= j
    IN  [attempted |-> SubSeq(order, 1, last),
         clientes_caidos |-> SelectSeq(SubSeq(order, 1, last), LAMBDA a : a \in fails)]

notificar(order, fails) ==
    [attempted |-> order,
     clientes_caidos |-> SelectSeq(order, LAMBDA a : a \in fails)]

\* the listener forwards an inv it has handled (sender_notif.send)
EnviarNotificacion(inv) ==
    /\ n_peer < MaxPeerMsgs
    /\ n_peer' = n_peer + 1
    /\ recv_notif' = Append(recv_notif, inv)
    /\ UNCHANGED <<wallet_vars, listener_vars, conn_pc, conn_in, conn_out, conn_closed,
                   conn_seen, conn_ret, headers_hash_height, txn_memory,
                   client_connections, last_notif, last_call, config, pool>>

\* the accept loop registers the socket unless the address is registered
agregar_cliente_en_vector_conexiones(addr) ==
    /\ client_connections' =
          IF addr \in DOMAIN client_connections THEN client_connections
          ELSE [a \in (DOMAIN client_connections) \cup {addr} |->
                   IF a = addr THEN [closed |-> FALSE, out |-> <<>>]
                   ELSE client_connections[a]]
    /\ UNCHANGED <<wallet_vars, listener_vars, conn_vars, headers_hash_height,
                   txn_memory, recv_notif, last_notif, last_call, config, pool>>

\* a registered client closes its connection
ClienteCierra(addr) ==
    /\ addr \in DOMAIN client_connections
    /\ ~client_connections[addr].closed
    /\ client_connections' = [client_connections EXCEPT ![addr].closed = TRUE]
    /\ UNCHANGED <<wallet_vars, listener_vars, conn_vars, headers_hash_height,
                   txn_memory, recv_notif, last_notif, last_call, config, pool>>

\* one iteration of envio_notificaciones_cliente, the registry locked: a
\* write to a client that has closed may return an error
envio_notificaciones_cliente ==
    /\ recv_notif # <<>>
    /\ recv_notif' = Tail(recv_notif)
    /\ \E order \in Orders(DOMAIN client_connections) :
       \E fails \in SUBSET {a \in DOMAIN client_connections : client_connections[a].closed} :
          LET inv == Head(recv_notif)
              r == notificar(order, fails)
              written == Range(r.attempted) \ fails
          IN  /\ client_connections' =
                    [a \in (DOMAIN client_connections) \ Range(r.clientes_caidos) |->
                        IF a \in written
                        THEN [client_connections[a] EXCEPT !.out = Append(@, inv)]
                        ELSE client_connections[a]]
              /\ last_notif' = [kind |-> "inv", inv |-> inv,
                                registered |-> DOMAIN client_connections,
                                attempted |-> r.attempted,
                                failed |-> Range(r.attempted) \cap fails]
    /\ UNCHANGED <<wallet_vars, listener_vars, conn_vars, headers_hash_height, txn_memory,
                   last_call, config, pool>>

InitNotifier ==
    /\ InitWalletPart(<<>>)
    /\ InitListenerPart
    /\ ConnectedConnPart
    /\ InitServerPart(<<TESNET_GENESIS_HEADER>>)

NextNotifier ==
    \/ \E inv \in NotifiedInvs : EnviarNotificacion(inv)
    \/ \E addr \in Clients : agregar_cliente_en_vector_conexiones(addr)
    \/ \E addr \in Clients : ClienteCierra(addr)
    \/ envio_notificaciones_cliente

SpecNotifier == InitNotifier /\ [][NextNotifier]_vars

\* C16: for each inv taken from the channel the notifier attempts one send
\* to every client registered at that moment, and afterwards the registry
\* holds exactly the clients whose write succeeded, each with the inv
\* written after what it had been sent before.
C16_NotifierSendsToAllEvictsFailed ==
    [][Len(recv_notif') < Len(recv_notif) =>
         LET attempted == last_notif'.attempted
         IN  /\ last_notif'.inv = Head(recv_notif)
             /\ Range(attempted) = DOMAIN client_connections
             /\ Len(attempted) = Cardinality(DOMAIN client_connections)
             /\ DOMAIN client_connections' = (DOMAIN client_connections) \ last_notif'.failed
             /\ \A a \in DOMAIN client_connections' :
                   client_connections'[a].out =
                      Append(client_connections[a].out, Head(recv_notif))]_vars

\* an inv went to two registered clients: the write to one failed and that
\* client is gone from the registry, the other got the inv and stays
C16_Witness ==
    /\ last_notif.kind = "inv"
    /\ last_notif.registered = Clients
    /\ Cardinality(last_notif.failed) = 1
    /\ \E a \in Clients :
          /\ DOMAIN client_connections = {a}
          /\ Len(client_connections[a].out) > 0
          /\ client_connections[a].out[Len(client_connections[a].out)] = last_notif.inv


(***************************************************************************)
(* The headers vector as a chain.                                          *)
(***************************************************************************)
\* C17: at every moment the in-memory header sequence is a chain: for every
\* index i > 0, header[i].previous is the hash of header[i-1].
C17_HeadersAreAChain ==
    \A i \in 2..Len(headers) :
       headers[i].previous_block_header_hash = obtain_blockhash(headers[i - 1])


(***************************************************************************)
(* The UTXO set: the scan of the blocks directory at startup, the update   *)
(* with each new block and the balance of the accounts.                    *)
(***************************************************************************)
\* a transaction that spends the first output of E2
E3 == [tx_in |-> <<SpendIn(E2, 0, "mB")>>,
       tx_out |-> <<TxOut_new("mA", 1)>>,
       tx_lock_time |-> 0]

\* blocks the directory can hold: F1 alone; F2 and E2, which spends an output
\* of F1; a block of another branch that also holds E2; E3, which spends an
\* output of E2
ScanBlockA == MinedBlock(obtain_blockhash(TESNET_GENESIS_HEADER), <<F1>>, TESTNET_NBITS, 4)
ScanBlockB == MinedBlock(HashOf(ScanBlockA), <<F2, E2>>, TESTNET_NBITS, 4)
ScanBlockBf == MinedBlock(HashOf(ScanBlockA), <<E2>>, TESTNET_NBITS, 6)
ScanBlockC == MinedBlock(HashOf(ScanBlockB), <<E3>>, TESTNET_NBITS, 4)
ScanBlocks == {ScanBlockA, ScanBlockB, ScanBlockBf, ScanBlockC}

\* blocks the listener hands to the wallet afterwards; in the last one E3
\* spends an output that E2 creates in the same block
UpdateBlocks ==
    {ScanBlockB, ScanBlockC,
     MinedBlock(HashOf(ScanBlockA), <<E2, E3>>, TESTNET_NBITS, 8)}

\* key pairs the form can submit, one with the short address
UtxoKeyPairs == KeyPairs \cup {<<ShortAddress, "kA">>}

DirectoryOf(blocks) == [name \in {HashOf(b) : b \in blocks} |->
                           CHOOSE b \in blocks : HashOf(b) = name]

InitUtxo ==
    /\ \E blocks \in SUBSET ScanBlocks : blocks_dir = DirectoryOf(blocks)
    /\ utxos = <<>>
    /\ wallets = <<>>
    /\ wallet_file = <<>>
    /\ wallet_pc = "starting"
    /\ last_event = [kind |-> "none"]
    /\ n_events = 0
    /\ now = 0
    /\ headers = <<TESNET_GENESIS_HEADER>>
    /\ headers_file = <<>>
    /\ wallet_chan = <<>>
    /\ gui_chan = <<>>
    /\ listener_pc = "running"
    /\ last_block = [kind |-> "none"]
    /\ n_blocks = 0
    /\ ConnectedConnPart
    /\ InitServerPart(<<TESNET_GENESIS_HEADER>>)

\* the wallet thread starts: obtain_utxo over the directory, read in some order
ObtenerUtxo ==
    /\ wallet_pc = "starting"
    /\ \E order \in Orders(DOMAIN blocks_dir) : utxos' = obtain_utxo(blocks_dir, order)
    /\ wallet_pc' = "running"
    /\ last_event' = [kind |-> "ObtainUtxo"]
    /\ UNCHANGED <<wallets, wallet_file, n_events, now, listener_vars, conn_vars, server_vars>>

NextUtxo ==
    \/ ObtenerUtxo
    \/ \E kp \in UtxoKeyPairs, alias \in Aliases : AgregarWallet(kp[2], kp[1], alias)
    \/ \E bloque \in UpdateBlocks : RecibirBloque(bloque)

SpecUtxo == InitUtxo /\ [][NextUtxo]_vars

\* keys referenced as previous output by an input of a block of the directory
ScannedInputKeys == UNION {BlockInputKeys(blocks_dir[name]) : name \in DOMAIN blocks_dir}

\* C18: after the initial scan over the blocks directory, no key of the UTXO
\* map is referenced as previous output by any input of any transaction in
\* the scanned blocks.
C18_ScanLeavesNoSpentOutput ==
    last_event.kind = "ObtainUtxo" => (DOMAIN utxos) \cap ScannedInputKeys = {}

\* C19: update_utxo(U, B) is (U plus all outputs of B) minus every key
\* referenced by an input of B, so an output created and spent inside B is
\* absent; the unmatched count is the number of distinct inputs of B that
\* reference neither an entry of U nor an output of B.
C19_UpdateUtxoAddsThenSpends ==
    [][(last_event'.kind = "RecibirBloque" /\ n_events' = n_events + 1) =>
         LET B == last_event'.bloque
             ins == BlockInputKeys(B)
             outs == BlockOutputKeys(B)
         IN  /\ DOMAIN utxos' = ((DOMAIN utxos) \cup outs) \ ins
             /\ \A k \in DOMAIN utxos' :
                   IF k \in outs
                   THEN \E t \in 1..Len(B.txns) :
                           /\ obtain_tx_id(B.txns[t]) = k[1]
                           /\ utxos'[k] = B.txns[t]
                   ELSE utxos'[k] = utxos[k]
             /\ update_utxo_unmatched(utxos, B) =
                   Cardinality({k \in ins : k \notin DOMAIN utxos /\ k \notin outs})]_vars

\* a block in which E3 spends an output E2 creates was applied to a map
\* holding the output of F1 that E2 spends
C19_Witness ==
    /\ last_event.kind = "RecibirBloque"
    /\ last_event.bloque.txns = <<E2, E3>>
    /\ <<obtain_tx_id(F1), 0>> \in DOMAIN utxos
    /\ <<obtain_tx_id(F1), 1>> \notin DOMAIN utxos
    /\ <<obtain_tx_id(E2), 0>> \notin DOMAIN utxos
    /\ <<obtain_tx_id(E2), 1>> \in DOMAIN utxos
    /\ <<obtain_tx_id(E3), 0>> \in DOMAIN utxos
    /\ n_events = 1

\* a pay-to-pubkey-hash script: OP_DUP OP_HASH160, the push of 20 bytes,
\* OP_EQUALVERIFY OP_CHECKSIG, and the hash it pays
IsP2PKHScript(pk_script) ==
    /\ Len(pk_script) = PUBKEY_HASH_LEN + 5
    /\ pk_script[1] = OP_DUP
    /\ pk_script[2] = OP_HASH160
    /\ pk_script[3] = PUBKEY_HASH_LEN
    /\ pk_script[PUBKEY_HASH_LEN + 4] = OP_EQUALVERIFY
    /\ pk_script[PUBKEY_HASH_LEN + 5] = OP_CHECKSIG

PaidHash(pk_script) == SubSeq(pk_script, 4, PUBKEY_HASH_LEN + 3)

\* the entries of the map whose output is a P2PKH output paying the account
OwnedKeys(account, utxo_map) ==
    {k \in DOMAIN utxo_map :
        LET pk_script == utxo_map[k].tx_out[k[2] + 1].pk_script
        IN  /\ IsP2PKHScript(pk_script)
            /\ PaidHash(pk_script) = decode_bitcoin_adress(account.public_address)}

\* C20: after obtain_account_balance(U), an account's owned-UTXO subset is
\* exactly the entries of U whose output is a P2PKH output paying the
\* account's decoded pubkey hash, its balance is the sum of those outputs'
\* values, and non-P2PKH outputs never contribute.
C20_BalanceIsOwnedP2PKH ==
    \A a \in DOMAIN wallets :
       /\ DOMAIN wallets[a].utxo_transaction = OwnedKeys(wallets[a], utxos)
       /\ wallets[a].balance = SumValues(utxos, OwnedKeys(wallets[a], utxos))

(***************************************************************************)
(* Functions called on their own: the arguments are drawn by Init, the     *)
(* action applies the function and records what it returned.               *)
(***************************************************************************)
InitCalls(calls) ==
    /\ InitWalletPart(<<>>)
    /\ InitListenerPart
    /\ ConnectedConnPart
    /\ headers_hash_height = obtener_hash_height_headers(<<TESNET_GENESIS_HEADER>>)
    /\ txn_memory = <<>>
    /\ client_connections = <<>>
    /\ recv_notif = <<>>
    /\ last_notif = [kind |-> "none"]
    /\ last_call \in calls
    /\ config = DefaultConfig
    /\ pool = NoPool

(***************************************************************************)
(* proof_of_work on headers of any n_bits.                                 *)
(***************************************************************************)
\* exponents and mantissas of the n_bits checked: the exponent of the
\* Testnet minimum difficulty, the smallest and largest the target array
\* can hold, and those on either side
PowExponents == {0, 2, 3, 29, 31, 32, 33}
PowMantissas == {65535, 1}

PowHeaders ==
    {[previous_block_header_hash |-> NULL_HASH, merkle_root_hash |-> NULL_HASH, time |-> 1,
      n_bits |-> e * 16777216 + m, nonce |-> FIRST_POW_NONCE + d - 1] :
        e \in PowExponents, m \in PowMantissas, d \in 1..Len(PowDigests)}

InitPow == InitCalls({[fn |-> "input", header_bloque |-> h] : h \in PowHeaders})

\* validar_bloque's call of proof_of_work on a header
LlamarProofOfWork ==
    /\ last_call.fn = "input"
    /\ last_call' = [fn |-> "proof_of_work",
                     header_bloque |-> last_call.header_bloque,
                     result |-> proof_of_work_bytes(last_call.header_bloque.n_bits,
                                                    header_hash_be(last_call.header_bloque))]
    /\ UNCHANGED <<wallet_vars, listener_vars, conn_vars, headers_hash_height, txn_memory,
                   client_connections, recv_notif, last_notif, config, pool>>

NextPow == LlamarProofOfWork

SpecPow == InitPow /\ [][NextPow]_vars

\* byte i (1 the most significant) of mantissa * 256^(exponent - 3), the
\* target a compact n_bits stands for, and whether that number needs more
\* than 256 bits
TargetByte(n_bits, i) ==
    LET exponente == (n_bits \div 16777216) % 256
        mantisa == n_bits % 16777216
        j == (LARGO_TARGET - i) - (exponente - BYTES_IN_SIGNIFICAND)
    IN  IF j = 0 THEN mantisa % 256
        ELSE IF j = 1 THEN (mantisa \div 256) % 256
        ELSE IF j = 2 THEN (mantisa \div 65536) % 256
        ELSE 0

TargetOverflows(n_bits) ==
    \E i \in (1 - BYTES_IN_SIGNIFICAND)..0 : TargetByte(n_bits, i) # 0

\* hash < target, both read as 256-bit big-endian numbers
HashBelowTarget(hash, n_bits) ==
    \/ TargetOverflows(n_bits)
    \/ \E i \in 1..LARGO_TARGET :
          /\ hash[i] < TargetByte(n_bits, i)
          /\ \A k \in 1..(i - 1) : hash[k] = TargetByte(n_bits, k)

\* C21: for every header, whatever its n_bits, proof_of_work returns true
\* exactly when the header's digest read as a 256-bit big-endian number is
\* strictly less than the target expanded from n_bits, and false otherwise
\* (also when the digest equals the target).
C21_ProofOfWorkIffBelowTarget ==
    last_call.fn = "proof_of_work" =>
       LET h == last_call.header_bloque
       IN  /\ last_call.result \in {"true", "false"}
           /\ last_call.result = "true" <=> HashBelowTarget(header_hash_be(h), h.n_bits)

(***************************************************************************)
(* The Merkle proof dialog: merkle_proof on a block and a transaction of   *)
(* it, then generar_merkle_root_con_merkle_proof on the proof, or on the   *)
(* proof with one hash or one side changed.                                *)
(***************************************************************************)
MerkleBodies ==
    {<<F1>>, <<F1, F2>>, <<F1, F2, E1>>, <<F1, F2, E1, E2>>, <<F1, F2, E1, E2, E3>>,
     <<F1, F1>>}

MerkleBlocks == {MinedBlock(NULL_HASH, txns, TESTNET_NBITS, 0) : txns \in MerkleBodies}

\* hashes and sides an entry of a proof can be changed to
AlteredHashes ==
    {NULL_HASH, sha256d_txn(NullTx), sha256d_concat(sha256d_txn(F1), sha256d_txn(F1))}
AlteredSides == {"left", "right", ""}

NoChange == [part |-> "none", pos |-> 0]

InitMerkle ==
    InitCalls(UNION {{[fn |-> "input", bloque |-> b, transaccion |-> sha256d_txn(b.txns[i])] :
                         i \in 1..Len(b.txns)} : b \in MerkleBlocks})

GenerarMerkleProof ==
    /\ last_call.fn = "input"
    /\ last_call' = [fn |-> "merkle_proof",
                     bloque |-> last_call.bloque,
                     transaccion |-> last_call.transaccion,
                     original |-> merkle_proof(last_call.transaccion, last_call.bloque),
                     proof |-> merkle_proof(last_call.transaccion, last_call.bloque),
                     changed |-> NoChange]
    /\ UNCHANGED <<wallet_vars, listener_vars, conn_vars, headers_hash_height, txn_memory,
                   client_connections, recv_notif, last_notif, config, pool>>

\* one hash or one side of the proof is changed before it is reduced
AlterarProof ==
    /\ last_call.fn = "merkle_proof"
    /\ last_call.changed = NoChange
    /\ \E pos \in 1..Len(last_call.proof) :
          \/ \E h \in AlteredHashes \ {last_call.proof[pos][1]} :
                last_call' = [last_call EXCEPT !.proof[pos][1] = h,
                                               !.changed = [part |-> "hash", pos |-> pos]]
          \/ \E side \in AlteredSides \ {last_call.proof[pos][2]} :
                last_call' = [last_call EXCEPT !.proof[pos][2] = side,
                                               !.changed = [part |-> "side", pos |-> pos]]
    /\ UNCHANGED <<wallet_vars, listener_vars, conn_vars, headers_hash_height, txn_memory,
                   client_connections, recv_notif, last_notif, config, pool>>

GenerarMerkleRoot ==
    /\ last_call.fn = "merkle_proof"
    /\ last_call' = [fn |-> "generar_merkle_root_con_merkle_proof",
                     bloque |-> last_call.bloque,
                     transaccion |-> last_call.transaccion,
                     original |-> last_call.original,
                     proof |-> last_call.proof,
                     changed |-> last_call.changed,
                     result |-> generar_merkle_root_con_merkle_proof(last_call.proof)]
    /\ UNCHANGED <<wallet_vars, listener_vars, conn_vars, headers_hash_height, txn_memory,
                   client_connections, recv_notif, last_notif, config, pool>>

NextMerkle ==
    \/ GenerarMerkleProof
    \/ AlterarProof
    \/ GenerarMerkleRoot

SpecMerkle == InitMerkle /\ [][NextMerkle]_vars

Reduced == last_call.fn = "generar_merkle_root_con_merkle_proof"

Accumulated(proof, pos) == generar_merkle_root_con_merkle_proof(SubSeq(proof, 1, pos - 1))

\* a change of side that the reduce can see: the entry is not the first,
\* the side goes from "right" to another value or back, and the sibling is
\* not equal to the hash it is paired with
VisibleSideChange ==
    LET pos == last_call.changed.pos
    IN  /\ last_call.changed.part = "side"
        /\ pos > 1
        /\ (last_call.original[pos][2] = "right") # (last_call.proof[pos][2] = "right")
        /\ last_call.proof[pos][1] # Accumulated(last_call.proof, pos)

FileLabels == {"gift", ""}

NextWalletFile ==
    \/ \E kp \in KeyPairs, alias \in Aliases : AgregarWallet(kp[2], kp[1], alias)
    \/ \E alias \in Aliases, amount \in Amounts, label \in FileLabels,
          address \in Destinations, fee \in Fees :
          RealizarTransferencia(alias, amount, label, address, fee)
    \/ WalletReady /\ \E txn \in KnownTxns : RecibirTxn(txn)
    \/ WalletReady /\ \E bloque \in WalletBlocks : RecibirBloque(bloque)

SpecWalletFile == InitWallet /\ [][NextWalletFile]_vars

\* what the file keeps of a list of TxnInfo
Entries(list) ==
    [i \in 1..Len(list) |->
        <<list[i].txn, list[i].label, list[i].amount, list[i].address, list[i].bloque>>]

Restored(w, loaded) ==
    /\ loaded.result = "Ok"
    /\ DOMAIN loaded.accounts = DOMAIN w
    /\ \A a \in DOMAIN w :
          /\ loaded.accounts[a].public_address = w[a].public_address
          /\ loaded.accounts[a].private_address = w[a].private_address
          /\ Entries(loaded.accounts[a].sending_txn) = Entries(w[a].sending_txn)
          /\ Entries(loaded.accounts[a].sent_txn) = Entries(w[a].sent_txn)
          /\ Entries(loaded.accounts[a].receiving_txn) = Entries(w[a].receiving_txn)
          /\ Entries(loaded.accounts[a].saved_received_txn) = Entries(w[a].saved_received_txn)

\* C23: saving the wallet and loading the file back restores every account
\* with the same alias, address and private key and the same Sending, Sent,
\* Receiving and Received entries (transaction, label, amount, address,
\* block) in the same order, for every wallet state reachable through
\* wallet events.
C23_SaveLoadRestores ==
    \A order \in Orders(DOMAIN wallets) :
       Restored(wallets, load(save_lines(SaveImage(wallets), order), utxos))


(***************************************************************************)
(* The listener loop: recibir_nuevos_bloques_txs from one inv to the next, *)
(* with recibir_bloque, recibir_transaccion and add_txn_in_memory.         *)
(***************************************************************************)
\* the frame of the loop while no inv is being handled
Iteracion == [fn |-> "recibir_nuevos_bloques_txs"]

\* bytes of the entries of an inv payload
inventories_len(inventories) ==
    SumSeq([i \in 1..Len(inventories) |-> inventory_len(inventories[i])])

\* Inv::from_bytes : chunks(length / count) divides by a count of zero and
\* refuses a chunk size of zero
Inv_from_bytes_panics(bytes) ==
    \/ bytes.count = 0
    \/ inventories_len(bytes.inventories) \div bytes.count = 0

\* Inv::from_bytes : the count, and the bytes after it cut in count chunks
Inv_from_bytes(bytes) ==
    LET largo == inventories_len(bytes.inventories) \div bytes.count
        por_chunk == largo \div (4 + HASH_LENGTH)
    IN  [count |-> bytes.count,
         inventories |-> [i \in 1..(Len(bytes.inventories) \div por_chunk) |->
                             bytes.inventories[(i - 1) * por_chunk + 1]]]

\* add_txn_in_memory that never removes the oldest entry
add_txn_in_memory_sin_desalojo(memory, transaccion, txid_str, cant_max_txn_memoria) ==
    Append(memory, <<txid_str, transaccion>>)

\* add_txn_in_memory : Vec::remove(0) panics on an empty vector
add_txn_in_memory_panics(memory, cant_max_txn_memoria) ==
    Len(memory) = cant_max_txn_memoria /\ Len(memory) = 0

\* add_txn_in_memory : drop the first entry of a full vector, then push
add_txn_in_memory(memory, transaccion, txid_str, cant_max_txn_memoria) ==
    Append(IF Len(memory) = cant_max_txn_memoria THEN Tail(memory) ELSE memory,
           <<txid_str, transaccion>>)

\* Txn::from_bytes succeeds
Txn_from_bytes_ok(bytes_respuesta) == bytes_respuesta.kind = "tx"

\* the listener thread returns or panics
LoopEnds ==
    /\ listener_pc' = "dead"
    /\ conn_pc' = [conn_pc EXCEPT !["up"] = "failed"]

\* the end of an iteration of the loop: the inv goes to the notifier
FinIteracion(inv_recibido) ==
    /\ recv_notif' = IF config.server_mode THEN Append(recv_notif, inv_recibido)
                     ELSE recv_notif
    /\ conn_pc' = [conn_pc EXCEPT !["up"] = AwaitPc("inv")]
    /\ last_call' = Iteracion

\* write_to_node of the getdata for an inv, then wait for what it asks; the
\* write may return an error once the peer has closed
EnviarGetdata(payload, comando_esperado, frame) ==
    \/ /\ conn_out' = [conn_out EXCEPT !["up"] = Append(@, Msg("getdata", payload))]
       /\ conn_pc' = [conn_pc EXCEPT !["up"] = AwaitPc(comando_esperado)]
       /\ last_call' = frame
       /\ UNCHANGED listener_pc
    \/ /\ conn_closed["up"]
       /\ LoopEnds
       /\ UNCHANGED <<conn_out, last_call>>

\* recibir_nuevos_bloques_txs : what the loop does with the result of
\* handle_specific_message("inv"), up to the next read
recibir_nuevos_bloques_txs ==
    /\ listener_pc = "running"
    /\ last_call = Iteracion
    /\ conn_pc["up"] \in {ReturnedPc("inv"), "failed"}
    /\ UNCHANGED <<wallet_vars, conn_in, conn_closed, conn_seen, conn_ret, n_peer,
                   headers, headers_file, blocks_dir, wallet_chan, gui_chan,
                   last_block, n_blocks, headers_hash_height, txn_memory,
                   client_connections, recv_notif, last_notif, config, pool>>
    /\ IF conn_pc["up"] = "failed"
       THEN LoopEnds /\ UNCHANGED <<conn_out, last_call>>
       ELSE IF Inv_from_bytes_panics(conn_ret["up"].payload)
       THEN LoopEnds /\ UNCHANGED <<conn_out, last_call>>
       ELSE LET bytes_respuesta == conn_ret["up"].payload
                inv_recibido == Inv_from_bytes(bytes_respuesta)
                tipo_inv == inv_recibido.inventories[1].tipo
            IN  IF tipo_inv = MSG_BLOCK
                THEN EnviarGetdata(bytes_respuesta, "block",
                                   [fn |-> "recibir_bloque", inv_recibido |-> inv_recibido])
                ELSE IF tipo_inv = MSG_TX
                THEN EnviarGetdata(inv_recibido, "tx",
                                   [fn |-> "recibir_transaccion",
                                    inv_recibido |-> inv_recibido,
                                    restantes |-> inv_recibido.count])
                ELSE /\ conn_pc' = [conn_pc EXCEPT !["up"] = AwaitPc("inv")]
                     /\ UNCHANGED <<conn_out, last_call, listener_pc>>

\* recibir_bloque : what it does with the result of
\* handle_specific_message("block"), and the end of the iteration
recibir_bloque(outcome) ==
    /\ listener_pc = "running"
    /\ last_call.fn = "recibir_bloque"
    /\ conn_pc["up"] \in {ReturnedPc("block"), "failed"}
    /\ UNCHANGED <<wallet_vars, conn_in, conn_out, conn_closed, conn_seen, conn_ret, n_peer,
                   headers_hash_height, txn_memory, client_connections, last_notif, config, pool>>
    /\ IF conn_pc["up"] = "failed"
       THEN /\ ListenerDies
            /\ UNCHANGED <<last_block, n_blocks, conn_pc, recv_notif, last_call>>
       ELSE /\ validar_bloque_paso(conn_ret["up"].payload, outcome)
            /\ IF listener_pc' = "running"
               THEN FinIteracion(last_call.inv_recibido)
               ELSE /\ conn_pc' = [conn_pc EXCEPT !["up"] = "failed"]
                    /\ UNCHANGED <<recv_notif, last_call>>

\* one turn of the for of recibir_transaccion : what it does with the result
\* of handle_specific_message("tx"), and the end of the iteration after the
\* last turn
recibir_transaccion(outcome) ==
    /\ listener_pc = "running"
    /\ last_call.fn = "recibir_transaccion"
    /\ conn_pc["up"] \in {ReturnedPc("tx"), "failed"}
    /\ outcome \in {"ok", "wallet_closed"}
    /\ UNCHANGED <<wallet_vars, conn_in, conn_out, conn_closed, conn_seen, conn_ret, n_peer,
                   headers, headers_file, blocks_dir, gui_chan, last_block, n_blocks,
                   headers_hash_height, client_connections, last_notif, config, pool>>
    /\ LET bytes_respuesta == conn_ret["up"].payload
           txid_str == obtain_tx_id(bytes_respuesta.txn)
           siguiente ==
               IF last_call.restantes = 1
               THEN /\ FinIteracion(last_call.inv_recibido)
                    /\ UNCHANGED listener_pc
               ELSE /\ conn_pc' = [conn_pc EXCEPT !["up"] = AwaitPc("tx")]
                    /\ last_call' = [last_call EXCEPT !.restantes = @ - 1]
                    /\ UNCHANGED <<recv_notif, listener_pc>>
       IN  IF conn_pc["up"] = "failed"
           THEN \* Err(_) => continue
                /\ outcome = "ok"
                /\ siguiente
                /\ UNCHANGED <<txn_memory, wallet_chan>>
           ELSE IF ~Txn_from_bytes_ok(bytes_respuesta)
           THEN /\ outcome = "ok"
                /\ LoopEnds
                /\ UNCHANGED <<txn_memory, wallet_chan, recv_notif, last_call>>
           ELSE IF config.server_mode
                   /\ add_txn_in_memory_panics(txn_memory, config.cant_max_txn_memoria)
           THEN /\ outcome = "ok"
                /\ LoopEnds
                /\ UNCHANGED <<txn_memory, wallet_chan, recv_notif, last_call>>
           ELSE /\ txn_memory' = IF config.server_mode
                                 THEN add_txn_in_memory(txn_memory, bytes_respuesta.txn,
                                                        txid_str, config.cant_max_txn_memoria)
                                 ELSE txn_memory
                /\ IF outcome = "wallet_closed"
                   THEN /\ LoopEnds
                        /\ UNCHANGED <<wallet_chan, recv_notif, last_call>>
                   ELSE /\ wallet_chan' = Append(wallet_chan,
                                            [kind |-> "RecibirTxn",
                                             txn |-> bytes_respuesta.txn,
                                             txid |-> txid_str])
                        /\ siguiente

\* the hash of an inventory entry for a block header / for a transaction
LoopBlockInventory == Inventory(MSG_BLOCK, obtain_blockhash(ChainBlock1.block_header))
LoopTxInventory(txn) == Inventory(MSG_TX, obtain_tx_id(txn))

\* inv payloads the upstream peer sends: a block, two transactions, a block
\* with a transaction, and a count of zero
LoopInvs ==
    {Inv_new(<<LoopBlockInventory>>),
     Inv_new(<<LoopTxInventory(E1), LoopTxInventory(E2)>>),
     Inv_new(<<LoopBlockInventory, LoopTxInventory(E1)>>),
     [count |-> 0, inventories |-> <<>>]}

\* messages the upstream peer sends to the listener
LoopMessages ==
    {Msg("inv", inv) : inv \in LoopInvs} \cup
    {Msg("block", [kind |-> "block", block |-> ChainBlock1]),
     Msg("block", [kind |-> "garbage"]),
     Msg("tx", [kind |-> "tx", txn |-> E1]),
     Msg("tx", [kind |-> "tx", txn |-> E2]),
     Msg("tx", [kind |-> "garbage"]),
     Msg("notfound", Raw("i1"))}

LoopCommands == {"inv", "block", "tx"}

\* the configurations the node is started with
LoopConfigs ==
    {[server_mode |-> TRUE, cant_max_txn_memoria |-> n] : n \in 0..MaxTxnMemory} \cup
    {[server_mode |-> FALSE, cant_max_txn_memoria |-> MaxTxnMemory]}

\* the listener thread as main spawns it, after the initial block download
InitLoop ==
    /\ InitWalletPart(<<>>)
    /\ InitListenerPart
    /\ headers_hash_height = obtener_hash_height_headers(<<TESNET_GENESIS_HEADER>>)
    /\ txn_memory = <<>>
    /\ client_connections = <<>>
    /\ recv_notif = <<>>
    /\ last_notif = [kind |-> "none"]
    /\ last_call = Iteracion
    /\ config \in LoopConfigs
    /\ pool = NoPool
    /\ conn_pc = [c \in Conn |-> IF c = "up" THEN AwaitPc("inv") ELSE "none"]
    /\ conn_in = [c \in Conn |-> <<>>]
    /\ conn_out = [c \in Conn |-> <<>>]
    /\ conn_closed = [c \in Conn |-> FALSE]
    /\ conn_seen = [c \in Conn |-> <<>>]
    /\ conn_ret = [c \in Conn |-> NoReturn]
    /\ n_peer = 0

NextLoop ==
    \/ \E m \in LoopMessages : PeerSend("up", m)
    \/ PeerClose("up")
    \/ \E comando_esperado \in LoopCommands : handle_specific_message(comando_esperado)
    \/ recibir_nuevos_bloques_txs
    \/ \E outcome \in Outcomes : recibir_bloque(outcome)
    \/ \E outcome \in Outcomes : recibir_transaccion(outcome)

SpecLoop == InitLoop /\ [][NextLoop]_vars

\* the last n elements of a sequence
LastN(s, n) == IF Len(s) <= n THEN s ELSE SubSeq(s, Len(s) - n + 1, Len(s))

\* the listener takes a transaction that parses out of a tx message
TxnReceived ==
    /\ listener_pc = "running"
    /\ last_call.fn = "recibir_transaccion"
    /\ conn_pc["up"] = ReturnedPc("tx")
    /\ Txn_from_bytes_ok(conn_ret["up"].payload)

\* C24: with server mode on, after any sequence of received transactions the
\* buffer of recent transactions holds at most cant_max_txn_memoria entries,
\* and they are the most recently received ones in arrival order: each
\* received transaction goes last and the oldest entries leave first.
C24_BufferKeepsMostRecent ==
    [][config.server_mode =>
          /\ Len(txn_memory') <= config.cant_max_txn_memoria
          /\ IF TxnReceived /\ conn_pc' # conn_pc
             THEN txn_memory' =
                     LastN(Append(txn_memory,
                                  <<obtain_tx_id(conn_ret["up"].payload.txn),
                                    conn_ret["up"].payload.txn>>),
                           config.cant_max_txn_memoria)
             ELSE txn_memory' = txn_memory
      ]_vars

\* E1 then E2 were received with room for one transaction: E2 alone is kept
C24_Witness ==
    /\ config.server_mode
    /\ config.cant_max_txn_memoria = 1
    /\ Len(wallet_chan) = 2
    /\ \A i \in 1..2 : wallet_chan[i].kind = "RecibirTxn"
    /\ wallet_chan[1].txn = E1
    /\ wallet_chan[2].txn = E2
    /\ txn_memory = <<<<obtain_tx_id(E2), E2>>>>

IsInv(m) == m.command = "inv"
IsGetdata(m) == m.command = "getdata"

\* the payloads of the messages of a sequence, in order
Payloads(msgs) == [i \in 1..Len(msgs) |-> msgs[i].payload]

\* the invs the listener has read from the upstream peer, and the invs it
\* has dispatched: each dispatch writes a getdata with the payload of the inv
InvsRead == Payloads(SelectSeq(conn_seen["up"], IsInv))
InvsDispatched == Payloads(SelectSeq(conn_out["up"], IsGetdata))

\* C26: every inv message the upstream peer sends after the initial block
\* download is dispatched by the listener, in the order received, and none is
\* discarded, whatever the listener is waiting for when the inv arrives: as
\* long as the listener runs, the invs dispatched are the invs read, but for
\* the one just returned to the loop.
C26_EveryInvDispatched ==
    listener_pc = "running" =>
        InvsDispatched =
            IF conn_pc["up"] = ReturnedPc("inv")
            THEN SubSeq(InvsRead, 1, Len(InvsRead) - 1)
            ELSE InvsRead

\* the result the listener is about to handle is an error on one message: a
\* notfound answer to its getdata, a block or a transaction that does not
\* parse, an inv whose count is zero
MessageError ==
    \/ /\ conn_pc["up"] = "failed"
       /\ conn_ret["up"].kind = "Err"
       /\ conn_ret["up"].error \in {"ElNodoNoEncuentraBloquePedido",
                                    "ElNodoNoEncuentraTransaccionPedida"}
    \/ /\ conn_pc["up"] = ReturnedPc("block")
       /\ ~from_bytes_ok(conn_ret["up"].payload)
    \/ /\ conn_pc["up"] = ReturnedPc("tx")
       /\ ~Txn_from_bytes_ok(conn_ret["up"].payload)
    \/ /\ conn_pc["up"] = ReturnedPc("inv")
       /\ Inv_from_bytes_panics(conn_ret["up"].payload)

\* C27: an error on one message inside the listener loop (a notfound answer
\* to its getdata, a block or transaction that fails to parse, a malformed
\* inv) leaves the listener thread running, waiting for the next message.
C27_MessageErrorKeepsListener ==
    [][listener_pc = "running" /\ MessageError /\ conn_pc' # conn_pc
          => listener_pc' = "running" /\ conn_pc'["up"] \in {AwaitPc("inv"), AwaitPc("tx")}
      ]_vars

\* the entries of an inv that have a given type
EntriesOfType(inv, tipo) == {i \in 1..Len(inv.inventories) : inv.inventories[i].tipo = tipo}

\* what a call made by the loop for an inv is going to wait for: the number
\* of block messages and the number of tx messages
BlocksAwaited(frame) == IF frame.fn = "recibir_bloque" THEN 1 ELSE 0
TxnsAwaited(frame) == IF frame.fn = "recibir_transaccion" THEN frame.restantes ELSE 0

\* C28: for an inv message carrying several inventory entries the listener
\* handles each entry according to that entry's own type: when it dispatches
\* the inv, it fetches a block for every MSG_BLOCK entry and a transaction
\* for every MSG_TX entry, whatever the type or position of the others.
C28_EachEntryByItsType ==
    [][last_call = Iteracion /\ last_call' # Iteracion =>
          /\ BlocksAwaited(last_call') =
                Cardinality(EntriesOfType(last_call'.inv_recibido, MSG_BLOCK))
          /\ TxnsAwaited(last_call') =
                Cardinality(EntriesOfType(last_call'.inv_recibido, MSG_TX))
      ]_vars


(***************************************************************************)
(* The wallet loop with every way it has to end: iniciar_wallet fed by the *)
(* GUI and by the listener, which forwards every transaction that parses.  *)
(***************************************************************************)
\* a transaction without inputs, paying a local address; Txn::from_bytes
\* accepts a tx_in_count of zero
TxnSinInputs == [tx_in |-> <<>>, tx_out |-> <<TxOut_new("mA", 1)>>, tx_lock_time |-> 0]

\* transactions the listener can hand to the wallet
ForwardedTxns == KnownTxns \cup {TxnSinInputs}

\* recv returns Err once every sender has been dropped
SendersDropped ==
    /\ WalletReady
    /\ wallet_pc' = "stopped"
    /\ last_event' = [kind |-> "Disconnected"]
    /\ n_events' = n_events + 1
    /\ UNCHANGED <<wallets, utxos, wallet_file, now, listener_vars, conn_vars, server_vars>>

NextWalletLoop ==
    \/ \E kp \in KeyPairs, alias \in Aliases : AgregarWallet(kp[2], kp[1], alias)
    \/ \E alias \in Aliases : CargarWallet(alias)
    \/ \E alias \in Aliases, amount \in Amounts, label \in Labels,
          address \in Destinations, fee \in Fees :
          RealizarTransferencia(alias, amount, label, address, fee)
    \/ \E txn \in ForwardedTxns : RecibirTxn(txn)
    \/ \E bloque \in WalletBlocks : RecibirBloque(bloque)
    \/ Cerrar
    \/ SendersDropped

SpecWalletLoop == InitWallet /\ [][NextWalletLoop]_vars

\* C25: the wallet event loop stops only when it dequeues Cerrar or when
\* every event sender has been dropped; while it handles any other event (a
\* transfer that fails, a received transaction or block that cannot be
\* processed) it goes on to the next event.
C25_StopsOnlyOnCerrarOrDisconnect ==
    [][wallet_pc = "running" /\ wallet_pc' # "running"
          => last_event'.kind \in {"Cerrar", "Disconnected"}]_vars


(***************************************************************************)
(* obtener_headers_validos_fecha : the headers whose blocks the initial     *)
(* block download asks for.                                                *)
(***************************************************************************)
MaxWindowHeaders == 3
MaxHeaderTime == 2

\* the first index (from zero) of the headers to download
indice_primer_header_a_descargar(cfg, headers_vec, indice_ultimo_header_descargado) ==
    LET meets == {i \in 1..Len(headers_vec) :
                     headers_vec[i].time >= cfg.timestamp_bloque_inicial}
    IN  IF meets = {} THEN 0
        ELSE LET i == (CHOOSE m \in meets : \A n \in meets : m <= n) - 1
             IN  IF indice_ultimo_header_descargado >= i
                 THEN indice_ultimo_header_descargado
                 ELSE i

\* obtener_headers_validos_fecha : headers[indice_primer_header_a_descargar..]
obtener_headers_validos_fecha(cfg, headers_vec, indice_ultimo_header_descargado) ==
    SubSeq(headers_vec,
           indice_primer_header_a_descargar(cfg, headers_vec,
                                            indice_ultimo_header_descargado) + 1,
           Len(headers_vec))

HeaderAt(time) ==
    [previous_block_header_hash |-> NULL_HASH, merkle_root_hash |-> NULL_HASH,
     time |-> time, n_bits |-> TESTNET_NBITS, nonce |-> 0]

\* headers vectors returned by actualizar_header_blockchain, by their times
WindowHeaders ==
    UNION {[1..n -> {HeaderAt(t) : t \in 0..MaxHeaderTime}] : n \in 1..MaxWindowHeaders}

\* the calls initial_block_download can make: a cutoff from the configuration
\* and the number of headers that were in the file
WindowCalls ==
    {[fn |-> "input",
      config |-> [timestamp_bloque_inicial |-> cutoff],
      headers |-> h,
      indice_ultimo_header_descargado |-> u] :
        cutoff \in 0..(MaxHeaderTime + 1), h \in WindowHeaders, u \in 0..MaxWindowHeaders}

InitWindow == InitCalls({c \in WindowCalls : c.indice_ultimo_header_descargado <= Len(c.headers)})

\* initial_block_download's call of obtener_headers_validos_fecha
LlamarHeadersValidosFecha ==
    /\ last_call.fn = "input"
    /\ last_call' = [fn |-> "obtener_headers_validos_fecha",
                     config |-> last_call.config,
                     headers |-> last_call.headers,
                     indice_ultimo_header_descargado |->
                         last_call.indice_ultimo_header_descargado,
                     result |-> obtener_headers_validos_fecha(
                                    last_call.config, last_call.headers,
                                    last_call.indice_ultimo_header_descargado)]
    /\ UNCHANGED <<wallet_vars, listener_vars, conn_vars, headers_hash_height, txn_memory,
                   client_connections, recv_notif, last_notif, config, pool>>

NextWindow == LlamarHeadersValidosFecha

SpecWindow == InitWindow /\ [][NextWindow]_vars

\* C29: every header in the window returned by obtener_headers_validos_fecha
\* has a time at or after the configured cutoff and an index not below the
\* index of the last header downloaded; the window is empty when no header
\* meets the cutoff.
C29_WindowAfterCutoff ==
    last_call.fn = "obtener_headers_validos_fecha" =>
        LET cutoff == last_call.config.timestamp_bloque_inicial
            first == Len(last_call.headers) - Len(last_call.result)
        IN  /\ last_call.result = SubSeq(last_call.headers, first + 1, Len(last_call.headers))
            /\ \A i \in 1..Len(last_call.result) : last_call.result[i].time >= cutoff
            /\ last_call.result # <<>> => first >= last_call.indice_ultimo_header_descargado
            /\ (\A i \in 1..Len(last_call.headers) : last_call.headers[i].time < cutoff)
                  => last_call.result = <<>>


(***************************************************************************)
(* getheaders_loop : the download of the headers, page after page.         *)
(***************************************************************************)
\* the bytes of a header cut short: BlockHeader::from_bytes slices past them
ShortHeader == [kind |-> "short"]

BlockHeader_from_bytes_panics(header) == header = ShortHeader

\* guardar_headers that leaves out the last header of the page
guardar_headers_sin_ultimo(archivo, headers_vec, pagina_headers) ==
    [archivo |-> archivo \o [i \in 1..(Len(pagina_headers) - 1) |->
                                HeaderLine(pagina_headers[i])],
     headers |-> headers_vec \o SubSeq(pagina_headers, 1, Len(pagina_headers) - 1),
     result |-> "Ok"]

\* guardar_headers : for each header of the page the line is written, then
\* the header is parsed and pushed; a header that is too short stops it
\* after its line was written
guardar_headers(archivo, headers_vec, pagina_headers) ==
    LET short == {i \in 1..Len(pagina_headers) :
                     BlockHeader_from_bytes_panics(pagina_headers[i])}
        written == IF short = {} THEN Len(pagina_headers)
                   ELSE CHOOSE i \in short : \A j \in short : i <= j
        pushed == IF short = {} THEN Len(pagina_headers) ELSE written - 1
    IN  [archivo |-> archivo \o [i \in 1..written |-> HeaderLine(pagina_headers[i])],
         headers |-> headers_vec \o SubSeq(pagina_headers, 1, pushed),
         result |-> IF short = {} THEN "Ok" ELSE "panic"]

\* the page getheaders makes of the payload of a headers message: the bytes
\* after the count, cut every 81
pagina_de(bytes_getheaders_respuesta) == bytes_getheaders_respuesta.headers

\* the frame of getheaders_loop
LoopFrame(pagina_headers, result) ==
    [fn |-> "getheaders_loop", pagina_headers |-> pagina_headers, result |-> result]

\* getheaders_loop from the test of its while to the next read, or to its
\* return: the page is stored, and another one asked for if it was full
getheaders_loop(outcome) ==
    /\ conn_pc["up"] = "while"
    /\ last_call.result = "none"
    /\ outcome \in {"ok", "headers_file_error"}
    /\ UNCHANGED <<wallet_vars, blocks_dir, wallet_chan, gui_chan, listener_pc, last_block,
                   n_blocks, conn_in, conn_closed, conn_seen, conn_ret, n_peer,
                   headers_hash_height, txn_memory, client_connections, recv_notif,
                   last_notif, config, pool>>
    /\ LET pagina_headers == last_call.pagina_headers
           g == guardar_headers(headers_file, headers, pagina_headers)
       IN  IF outcome = "headers_file_error"
           THEN \* writeln returns an error on the first header of the page
                /\ pagina_headers # <<>>
                /\ last_call' = LoopFrame(pagina_headers, "Err")
                /\ conn_pc' = [conn_pc EXCEPT !["up"] = "failed"]
                /\ UNCHANGED <<headers, headers_file, conn_out>>
           ELSE /\ headers_file' = g.archivo
                /\ headers' = g.headers
                /\ IF g.result = "panic"
                   THEN /\ last_call' = LoopFrame(pagina_headers, "panic")
                        /\ conn_pc' = [conn_pc EXCEPT !["up"] = "failed"]
                        /\ UNCHANGED conn_out
                   ELSE IF Len(pagina_headers) = MAX_HEADERS_POR_MENSAJE
                   THEN LET ultimo_hash_pagina ==
                                obtain_blockhash(pagina_headers[Len(pagina_headers)])
                            popped == SubSeq(pagina_headers, 1, Len(pagina_headers) - 1)
                        IN  \/ /\ conn_out' = [conn_out EXCEPT !["up"] =
                                     Append(@, Msg("getheaders",
                                                   GetHeadersMessage_new(<<ultimo_hash_pagina>>,
                                                                         NULL_HASH)))]
                               /\ conn_pc' = [conn_pc EXCEPT !["up"] = AwaitPc("headers")]
                               /\ last_call' = LoopFrame(popped, "none")
                            \/ /\ conn_closed["up"]
                               /\ conn_pc' = [conn_pc EXCEPT !["up"] = "failed"]
                               /\ last_call' = LoopFrame(popped, "Err")
                               /\ UNCHANGED conn_out
                   ELSE /\ last_call' = LoopFrame(pagina_headers, "Ok")
                        /\ conn_pc' = [conn_pc EXCEPT !["up"] = "done"]
                        /\ UNCHANGED conn_out

\* getheaders after handle_specific_message("headers") : the page goes back
\* to the loop, an error goes to the caller of the loop
getheaders ==
    /\ conn_pc["up"] \in {ReturnedPc("headers"), "failed"}
    /\ last_call.fn = "getheaders_loop"
    /\ last_call.result = "none"
    /\ UNCHANGED <<wallet_vars, listener_vars, conn_in, conn_out, conn_closed, conn_seen,
                   conn_ret, n_peer, headers_hash_height, txn_memory, client_connections,
                   recv_notif, last_notif, config, pool>>
    /\ IF conn_pc["up"] = "failed"
       THEN /\ last_call' = LoopFrame(last_call.pagina_headers, "Err")
            /\ UNCHANGED conn_pc
       ELSE /\ last_call' = LoopFrame(pagina_de(conn_ret["up"].payload), "none")
            /\ conn_pc' = [conn_pc EXCEPT !["up"] = "while"]

\* n headers in a row, told apart by their times
PageFrom(start, n) == [i \in 1..n |-> HeaderAt(start + i)]

\* pages a peer answers with: empty, one header, a full page, one header
\* more than a full page, and a page whose last header is cut short
Pages ==
    {PageFrom(start, n) : start \in {0, MAX_HEADERS_POR_MENSAJE},
                          n \in {0, 1, MAX_HEADERS_POR_MENSAJE, MAX_HEADERS_POR_MENSAJE + 1}}
    \cup {Append(PageFrom(0, 1), ShortHeader)}

HeadersMessage(pagina_headers) ==
    Msg("headers", [count |-> Len(pagina_headers), headers |-> pagina_headers])

HeadersLoopMessages ==
    {HeadersMessage(pagina_headers) : pagina_headers \in Pages} \cup {Msg("ping", Raw("n1"))}

\* getheaders_loop is entered by actualizar_header_blockchain with the page
\* its own getheaders has received, on an empty headers file
InitHeadersLoop ==
    /\ InitWalletPart(<<>>)
    /\ InitListenerPart
    /\ headers_hash_height = obtener_hash_height_headers(<<TESNET_GENESIS_HEADER>>)
    /\ txn_memory = <<>>
    /\ client_connections = <<>>
    /\ recv_notif = <<>>
    /\ last_notif = [kind |-> "none"]
    /\ config = DefaultConfig
    /\ pool = NoPool
    /\ \E pagina_headers \in Pages :
          /\ last_call = LoopFrame(pagina_headers, "none")
          /\ conn_seen = [c \in Conn |-> IF c = "up" THEN <<HeadersMessage(pagina_headers)>>
                                         ELSE <<>>]
          /\ conn_ret = [c \in Conn |-> IF c = "up"
                                        THEN Returned(HeadersMessage(pagina_headers).payload)
                                        ELSE NoReturn]
    /\ conn_pc = [c \in Conn |-> IF c = "up" THEN "while" ELSE "none"]
    /\ conn_in = [c \in Conn |-> <<>>]
    /\ conn_out = [c \in Conn |-> <<>>]
    /\ conn_closed = [c \in Conn |-> FALSE]
    /\ n_peer = 0

NextHeadersLoop ==
    \/ \E m \in HeadersLoopMessages : PeerSend("up", m)
    \/ PeerClose("up")
    \/ handle_specific_message("headers")
    \/ \E outcome \in Outcomes : getheaders_loop(outcome)
    \/ getheaders

SpecHeadersLoop == InitHeadersLoop /\ [][NextHeadersLoop]_vars

IsHeaders(m) == m.command = "headers"
IsGetheaders(m) == m.command = "getheaders"

\* the pages received so far, the first one included, in order
PagesReceived ==
    LET msgs == SelectSeq(conn_seen["up"], IsHeaders)
    IN  [i \in 1..Len(msgs) |-> pagina_de(msgs[i].payload)]

IsFullPage(pagina_headers) == Len(pagina_headers) = MAX_HEADERS_POR_MENSAJE

\* C30: getheaders_loop requests another page exactly when the page just
\* received holds MAX_HEADERS_POR_MENSAJE headers, each time with the hash of
\* the last header it has just stored as the locator; when it returns, every
\* header of every received page has been appended to the headers file and
\* to the vector in memory exactly once, in the order received.
C30_PagesStoredOnceInOrder ==
    /\ [](last_call.fn = "getheaders_loop" /\ last_call.result = "Ok" =>
            /\ headers = <<TESNET_GENESIS_HEADER>> \o Flatten(PagesReceived)
            /\ headers_file = [i \in 1..(Len(headers) - 1) |-> HeaderLine(headers[i + 1])]
            /\ Len(SelectSeq(conn_out["up"], IsGetheaders))
                  = Len(SelectSeq(PagesReceived, IsFullPage))
            /\ ~IsFullPage(PagesReceived[Len(PagesReceived)]))
    /\ [][conn_out' # conn_out /\ conn_pc["up"] = "while" =>
            /\ IsFullPage(PagesReceived[Len(PagesReceived)])
            /\ conn_out'["up"] =
                  Append(conn_out["up"],
                         Msg("getheaders",
                             GetHeadersMessage_new(<<obtain_blockhash(headers'[Len(headers')])>>,
                                                   NULL_HASH)))
            /\ headers' = headers \o PagesReceived[Len(PagesReceived)]
      ]_vars

\* the loop returned after a full page and a second page of one header
C30_Witness ==
    /\ last_call.fn = "getheaders_loop"
    /\ last_call.result = "Ok"
    /\ Len(PagesReceived) = 2
    /\ IsFullPage(PagesReceived[1])
    /\ Len(headers) = MAX_HEADERS_POR_MENSAJE + 2

(***************************************************************************)
(* The block download of initial_block_download: a ThreadPool whose        *)
(* workers take headers from a shared channel, ask their peer for the      *)
(* block with getdata and store the block they receive.                    *)
(*                                                                         *)
(* pool.main is the position of the thread running initial_block_download: *)
(* "start", "sending" (the for loop of download_blocks), "joining"         *)
(* (wait_for_threads), "returned_ok" or "returned_err".  A worker is at    *)
(* "recv" (waiting on the channel), "await" (waiting for the answer to its *)
(* getdata), or has ended: "ended_ok", "ended_err", "panicked".            *)
(* pool.taken lists the headers the workers received from the channel, in  *)
(* the order they received them, and pool.notfound collects the headers a  *)
(* peer answered notfound for.                                             *)
(***************************************************************************)
MaxWorkers == 2

\* the block a peer holds for a header
BlockOf(header) == [block_header |-> header, txns |-> <<E1>>]

\* header is the header whose block the worker is downloading
NewWorker == [pc |-> "recv", header |-> [kind |-> "none"], closed |-> FALSE]

WorkerEnded(worker) == worker.pc \in {"ended_ok", "ended_err", "panicked"}

\* a recv that leaves the header it returns in the channel
recv_sin_quitar(queue, sender) ==
    IF queue # <<>> THEN [result |-> "ok", header |-> Head(queue), queue |-> queue]
    ELSE IF sender = "dropped" THEN [result |-> "disconnected", queue |-> queue]
    ELSE [result |-> "blocked", queue |-> queue]

\* receiver.lock()?.recv() : the oldest header of the channel, or an error
\* once the channel is empty and its sender was dropped
recv(queue, sender) ==
    IF queue # <<>> THEN [result |-> "ok", header |-> Head(queue), queue |-> Tail(queue)]
    ELSE IF sender = "dropped" THEN [result |-> "disconnected", queue |-> queue]
    ELSE [result |-> "blocked", queue |-> queue]

\* what handle_specific_message("block") gives a worker that asked for the
\* block of a header: the block message the peer sent (of that header, and
\* whether its file can be written, or of the first header of the vector),
\* the error of a notfound, or the error of a read on a connection the peer
\* closed
Respuestas(headers_vec, header) ==
    {[kind |-> "block", header |-> header, file |-> f] : f \in {"ok", "error"}}
    \cup {[kind |-> "block", header |-> headers_vec[1], file |-> "ok"]}
    \cup {[kind |-> "notfound"], [kind |-> "eof"]}

\* a receive_block_data that returns the error of handle_specific_message
receive_block_data_propaga(dir, respuesta) ==
    IF respuesta.kind = "block" /\ respuesta.file = "ok"
    THEN [dir |-> guardar_bloque_memoria(dir, BlockOf(respuesta.header)), result |-> "ok"]
    ELSE [dir |-> dir, result |-> "err"]

\* receive_block_data : a block message is stored under the name of the
\* block received; every error of handle_specific_message is only logged
receive_block_data(dir, respuesta) ==
    IF respuesta.kind = "block"
    THEN IF respuesta.file = "ok"
         THEN [dir |-> guardar_bloque_memoria(dir, BlockOf(respuesta.header)),
               result |-> "ok"]
         ELSE [dir |-> dir, result |-> "err"]
    ELSE [dir |-> dir, result |-> "ok"]

\* initial_block_download after the headers were updated: the headers to
\* download, and ThreadPool::build with its workers' connections
initial_block_download(outcome) ==
    /\ pool.main = "start"
    /\ LET headers_validos_fecha ==
               obtener_headers_validos_fecha(config, headers, pool.indice_ultimo_header)
       IN  pool' = IF Len(headers_validos_fecha) = 0
                   THEN [pool EXCEPT !.main = "returned_ok"]
                   ELSE IF config.cant_threads = 0 \/ outcome # "ok"
                   THEN [pool EXCEPT !.main = "returned_err"]
                   ELSE [pool EXCEPT !.main = "sending",
                                     !.por_enviar = headers_validos_fecha,
                                     !.workers = [w \in 1..config.cant_threads |-> NewWorker]]
    /\ UNCHANGED <<wallet_vars, listener_vars, conn_vars, headers_hash_height, txn_memory,
                   client_connections, recv_notif, last_notif, last_call, config>>

\* one iteration of the for loop of download_blocks; send fails once every
\* worker thread has ended and dropped the receiver
download_blocks ==
    /\ pool.main = "sending"
    /\ pool.por_enviar # <<>>
    /\ pool' = IF \A w \in DOMAIN pool.workers : WorkerEnded(pool.workers[w])
               THEN [pool EXCEPT !.main = "returned_err", !.sender = "dropped"]
               ELSE [pool EXCEPT !.queue = Append(@, Head(pool.por_enviar)),
                                 !.por_enviar = Tail(@)]
    /\ UNCHANGED <<wallet_vars, listener_vars, conn_vars, headers_hash_height, txn_memory,
                   client_connections, recv_notif, last_notif, last_call, config>>

\* wait_for_threads : drop(self.sender), then join the workers in order
wait_for_threads ==
    /\ \/ /\ pool.main = "sending"
          /\ pool.por_enviar = <<>>
          /\ pool' = [pool EXCEPT !.main = "joining", !.sender = "dropped"]
       \/ /\ pool.main = "joining"
          /\ WorkerEnded(pool.workers[pool.joined + 1])
          /\ pool' = [pool EXCEPT !.joined = @ + 1,
                                  !.main = IF pool.joined + 1 = Len(pool.workers)
                                           THEN "returned_ok" ELSE "joining"]
    /\ UNCHANGED <<wallet_vars, listener_vars, conn_vars, headers_hash_height, txn_memory,
                   client_connections, recv_notif, last_notif, last_call, config>>

\* the worker's loop up to the getdata of block_download: the slice of
\* getdata panics when cant_blocks_por_inv is more than the one header it is
\* given, and its write can fail once the peer closed the connection
worker_recv(w, write) ==
    /\ pool.main \in {"sending", "joining", "returned_ok", "returned_err"}
    /\ w \in DOMAIN pool.workers
    /\ pool.workers[w].pc = "recv"
    /\ write = "error" => pool.workers[w].closed
    /\ LET mensaje == recv(pool.queue, pool.sender) IN
          /\ mensaje.result # "blocked"
          /\ pool' = IF mensaje.result = "disconnected"
                     THEN [pool EXCEPT !.workers[w].pc = "ended_ok"]
                     ELSE [pool EXCEPT
                              !.queue = mensaje.queue,
                              !.taken = Append(@, mensaje.header),
                              !.workers[w].header =
                                  IF config.cant_blocks_por_inv > 1 \/ write = "error"
                                  THEN [kind |-> "none"] ELSE mensaje.header,
                              !.workers[w].pc =
                                  IF config.cant_blocks_por_inv > 1 THEN "panicked"
                                  ELSE IF write = "error" THEN "ended_err"
                                  ELSE "await"]
    /\ UNCHANGED <<wallet_vars, listener_vars, conn_vars, headers_hash_height, txn_memory,
                   client_connections, recv_notif, last_notif, last_call, config>>

\* the rest of block_download: receive_block_data, whose error ends the worker
worker_receive(w, respuesta) ==
    /\ w \in DOMAIN pool.workers
    /\ pool.workers[w].pc = "await"
    /\ pool.workers[w].closed => respuesta.kind = "eof"
    /\ LET recibido == receive_block_data(blocks_dir, respuesta) IN
          /\ blocks_dir' = recibido.dir
          /\ pool' = [pool EXCEPT
                         !.notfound = IF respuesta.kind = "notfound"
                                      THEN @ \cup {pool.workers[w].header} ELSE @,
                         !.workers[w].closed = @ \/ respuesta.kind = "eof",
                         !.workers[w].header = [kind |-> "none"],
                         !.workers[w].pc = IF recibido.result = "ok" THEN "recv"
                                           ELSE "ended_err"]
    /\ UNCHANGED <<wallet_vars, headers, headers_file, wallet_chan, gui_chan, listener_pc,
                   last_block, n_blocks, conn_vars, headers_hash_height, txn_memory,
                   client_connections, recv_notif, last_notif, last_call, config>>

\* the configurations of the download
PoolConfigs ==
    {[timestamp_bloque_inicial |-> cutoff, cant_threads |-> n, cant_blocks_por_inv |-> 1] :
        cutoff \in {0, MaxHeaderTime}, n \in 0..MaxWorkers}
    \cup {[timestamp_bloque_inicial |-> 0, cant_threads |-> 1, cant_blocks_por_inv |-> 2]}

\* initial_block_download has the headers vector; indice_ultimo_header of
\* its headers were in the headers file when the node started, and the
\* blocks directory holds the blocks an earlier run stored for them: all of
\* them, or none when that run was interrupted
InitPool ==
    /\ InitWalletPart(<<>>)
    /\ ConnectedConnPart
    /\ \E n \in 1..MaxWindowHeaders, indice \in 0..MaxWindowHeaders :
          /\ indice <= n
          /\ headers = PageFrom(0, n)
          /\ \E stored \in {0, indice} :
                blocks_dir = DirectoryOf({BlockOf(PageFrom(0, n)[i]) : i \in 1..stored})
          /\ pool = [main |-> "start", indice_ultimo_header |-> indice, por_enviar |-> <<>>,
                     queue |-> <<>>, sender |-> "alive", workers |-> <<>>, joined |-> 0,
                     taken |-> <<>>, notfound |-> {}]
    /\ headers_file = <<>>
    /\ wallet_chan = <<>>
    /\ gui_chan = <<>>
    /\ listener_pc = "ibd"
    /\ last_block = [kind |-> "none"]
    /\ n_blocks = 0
    /\ headers_hash_height = <<>>
    /\ txn_memory = <<>>
    /\ client_connections = <<>>
    /\ recv_notif = <<>>
    /\ last_notif = [kind |-> "none"]
    /\ last_call = [fn |-> "none"]
    /\ config \in PoolConfigs

NextPool ==
    \/ \E outcome \in {"ok", "connect_error"} : initial_block_download(outcome)
    \/ download_blocks
    \/ wait_for_threads
    \/ \E w \in 1..MaxWorkers, write \in {"ok", "error"} : worker_recv(w, write)
    \/ \E w \in 1..MaxWorkers :
          /\ w \in DOMAIN pool.workers
          /\ \E respuesta \in Respuestas(headers, pool.workers[w].header) :
                worker_receive(w, respuesta)

SpecPool == InitPool /\ [][NextPool]_vars

(***************************************************************************)
(* Properties of the block download.                                       *)
(***************************************************************************)
\* the headers download_blocks was given
HeadersToDownload ==
    obtener_headers_validos_fecha(config, headers, pool.indice_ultimo_header)

\* download_blocks has put the header on the channel
Sent(header) ==
    /\ pool.main \notin {"start", "none"}
    /\ \E i \in 1..Len(HeadersToDownload) : HeadersToDownload[i] = header
    /\ \A i \in 1..Len(pool.por_enviar) : pool.por_enviar[i] # header

\* the receptions of the header by the workers
Takes(header) == {i \in DOMAIN pool.taken : pool.taken[i] = header}

\* C31: every header that download_blocks puts on the shared channel is
\* received at most once, by one worker, so that no block is asked for
\* twice; and once a worker has seen the channel closed and empty, every
\* header put on the channel has been received exactly once.
C31_EachHeaderOneWorker ==
    pool.main # "start" =>
        \A n \in 1..Len(headers) :
            LET times == Cardinality(Takes(headers[n])) IN
                /\ times <= 1
                /\ times = 1 => Sent(headers[n])
                /\ (\E w \in DOMAIN pool.workers : pool.workers[w].pc = "ended_ok")
                       => (Sent(headers[n]) => times = 1)

\* two workers wait for the blocks of the second and the third header,
\* after one of them stored the block of the first
C31_Witness ==
    /\ Len(pool.workers) = 2
    /\ \A w \in DOMAIN pool.workers : pool.workers[w].pc = "await"
    /\ Len(pool.taken) = 3
    /\ pool.workers[1].header = pool.taken[3]
    /\ pool.workers[2].header = pool.taken[2]
    /\ DOMAIN blocks_dir = {obtain_blockhash(pool.taken[1])}

\* C32: when download_blocks returns, every worker thread has ended, and the
\* workers have taken every header that was put on the channel before it
\* was closed: none is left in the queue.
C32_WorkersDrainQueue ==
    pool.main = "returned_ok" =>
        /\ \A w \in DOMAIN pool.workers : WorkerEnded(pool.workers[w])
        /\ pool.workers # <<>> => pool.queue = <<>>

\* a worker is handed the answer notfound to its getdata
NotfoundStep(w) ==
    /\ w \in DOMAIN pool.workers
    /\ pool.workers[w].pc = "await"
    /\ pool.workers[w].header \notin pool.notfound
    /\ pool.workers[w].header \in pool'.notfound

\* C33: when the peer answers a worker's getdata with notfound, no block
\* file is written (the blocks directory is as before, without a file for
\* the header asked for unless it was already there), the worker has not
\* ended, and it is back at the channel, where it takes the next header
\* when there is one.
C33_NotfoundSkipsBlock ==
    [][\A w \in 1..MaxWorkers :
          NotfoundStep(w) =>
              /\ blocks_dir' = blocks_dir
              /\ pool'.workers[w].pc = "recv"
              /\ pool'.taken = pool.taken
              /\ pool'.queue # <<>> => recv(pool'.queue, pool'.sender).result = "ok"]_vars

\* a worker that was answered notfound for one header has gone on to take
\* the next one and stored its block
C33_Witness ==
    /\ Len(pool.workers) = 1
    /\ Len(pool.taken) = 2
    /\ pool.notfound = {pool.taken[1]}
    /\ DOMAIN blocks_dir = {obtain_blockhash(pool.taken[2])}
    /\ pool.indice_ultimo_header = 0

\* C38: when initial_block_download has returned Ok, also in a run that
\* found headers of an earlier, interrupted run in the headers file, every
\* header of the vector whose time is at or after the configured cutoff has
\* its block file, unless a peer answered notfound for it.
C38_BlocksCompleteAfterIbd ==
    pool.main = "returned_ok" =>
        \A n \in 1..Len(headers) :
            headers[n].time >= config.timestamp_bloque_inicial =>
                \/ obtain_blockhash(headers[n]) \in DOMAIN blocks_dir
                \/ headers[n] \in pool.notfound

(***************************************************************************)
(* The bytes of a client's connection.  A message is a header of           *)
(* MESSAGE_HEADER_SIZE bytes followed by payload_size bytes of payload     *)
(* (the 24 bytes of the header are scaled to MESSAGE_HEADER_SIZE, the      *)
(* payloads to one or two bytes).  The first byte of a header stands for   *)
(* its fields and carries the message; every byte carries the number of    *)
(* the message it belongs to.                                              *)
(***************************************************************************)
MESSAGE_HEADER_SIZE == 2

\* payload sizes of the messages a client sends
PayloadSize(m) ==
    CASE m.command = "getheaders" -> 2
      [] m.command = "getdata" -> 1
      [] m.command = "ping" -> 1
      [] OTHER -> 0

\* MessageHeader::as_bytes followed by the payload
MessageBytes(m, number) ==
    <<[unit |-> "header", message |-> m, payload_size |-> PayloadSize(m), number |-> number]>>
    \o [i \in 1..(MESSAGE_HEADER_SIZE - 1) |-> [unit |-> "header_rest", number |-> number]]
    \o [i \in 1..PayloadSize(m) |-> [unit |-> "payload", number |-> number]]

\* MessageHeader::from_bytes : the fields are cut out of the bytes at fixed
\* offsets, whatever the bytes are; bytes that are not a header give a
\* header with some other command
MessageHeader_from_bytes(bytes) ==
    IF /\ bytes[1].unit = "header"
       /\ \A i \in 2..Len(bytes) :
             bytes[i].unit = "header_rest" /\ bytes[i].number = bytes[1].number
    THEN [aligned |-> TRUE, command |-> bytes[1].message.command,
          payload_size |-> bytes[1].payload_size, number |-> bytes[1].number]
    ELSE [aligned |-> FALSE, command |-> "garbage", payload_size |-> 0, number |-> 0]

\* the `_` arm of handlear_peticiones_cliente: the message is logged as
\* ignored and nothing is read from the socket
ignorar(bytes, message_header) == bytes

\* one iteration of handlear_peticiones_cliente on the bytes received:
\* leer_peticion_cliente reads a header, recibir_getheaders and
\* recibir_getdata read the payload it announces; utf8 tells whether the
\* command of bytes that are not a header is valid UTF-8
handlear_peticiones_cliente_bytes(utf8) ==
    /\ conn_pc["cl"] = "serving"
    /\ UNCHANGED <<conn_closed, n_peer, wallet_vars, listener_vars, conn_ret,
                   txn_memory, client_connections, recv_notif, last_notif, last_call, config, pool>>
    /\ IF Len(conn_in["cl"]) < MESSAGE_HEADER_SIZE
       THEN /\ conn_closed["cl"]
            /\ utf8 = "ok"
            /\ conn_pc' = [conn_pc EXCEPT !["cl"] = "ended"]
            /\ UNCHANGED <<conn_in, conn_out, conn_seen, headers_hash_height>>
       ELSE LET message_header ==
                    MessageHeader_from_bytes(SubSeq(conn_in["cl"], 1, MESSAGE_HEADER_SIZE))
                rest == SubSeq(conn_in["cl"], MESSAGE_HEADER_SIZE + 1, Len(conn_in["cl"]))
                m == conn_in["cl"][1].message
            IN  /\ utf8 = "error" => ~message_header.aligned
                /\ conn_seen' = [conn_seen EXCEPT !["cl"] = Append(@, message_header)]
                /\ IF utf8 = "error"
                   THEN /\ conn_pc' = [conn_pc EXCEPT !["cl"] = "ended"]
                        /\ conn_in' = [conn_in EXCEPT !["cl"] = rest]
                        /\ UNCHANGED <<conn_out, headers_hash_height>>
                   ELSE IF message_header.command \in {"getheaders", "getdata"}
                   THEN /\ Len(rest) >= message_header.payload_size
                        /\ conn_in' = [conn_in EXCEPT !["cl"] =
                               SubSeq(rest, message_header.payload_size + 1, Len(rest))]
                        /\ UNCHANGED conn_pc
                        /\ IF message_header.command = "getheaders"
                           THEN /\ headers_hash_height' =
                                       actualizar_headers_hash_height(headers_hash_height, headers)
                                /\ conn_out' = [conn_out EXCEPT !["cl"] =
                                       Append(@, recibir_getheaders(headers_hash_height',
                                                                    headers, m.payload))]
                           ELSE /\ conn_out' = [conn_out EXCEPT !["cl"] =
                                       @ \o recibir_getdata(m.payload.inventories, blocks_dir,
                                                            txn_memory, 1)]
                                /\ UNCHANGED headers_hash_height
                   ELSE /\ conn_in' = [conn_in EXCEPT !["cl"] = ignorar(rest, message_header)]
                        /\ UNCHANGED <<conn_pc, conn_out, headers_hash_height>>

\* the client writes a message: its header and its payload
ClienteEscribe(m) ==
    /\ ~conn_closed["cl"]
    /\ n_peer < MaxPeerMsgs
    /\ conn_in' = [conn_in EXCEPT !["cl"] = @ \o MessageBytes(m, n_peer + 1)]
    /\ n_peer' = n_peer + 1
    /\ UNCHANGED <<conn_pc, conn_out, conn_closed, conn_seen, conn_ret,
                   wallet_vars, listener_vars, server_vars>>

\* messages a client sends after the handshake
ClientMessages ==
    PeerRequests \cup {Msg("ping", Raw("nonce")), Msg("sendheaders", Raw(""))}

InitFraming ==
    /\ InitWalletPart(<<>>)
    /\ InitListenerPart
    /\ InitServerPart(<<TESNET_GENESIS_HEADER>>)
    /\ conn_pc = [c \in Conn |-> IF c = "up" THEN "done" ELSE "serving"]
    /\ conn_in = [c \in Conn |-> <<>>]
    /\ conn_out = [c \in Conn |-> <<>>]
    /\ conn_closed = [c \in Conn |-> FALSE]
    /\ conn_seen = [c \in Conn |-> <<>>]
    /\ conn_ret = [c \in Conn |-> NoReturn]
    /\ n_peer = 0

NextFraming ==
    \/ \E m \in ClientMessages : ClienteEscribe(m)
    \/ PeerClose("cl")
    \/ \E utf8 \in {"ok", "error"} : handlear_peticiones_cliente_bytes(utf8)

SpecFraming == InitFraming /\ [][NextFraming]_vars

\* C34: after the handler has ignored a message of the client, one whose
\* command is neither getheaders nor getdata, the next bytes it parses as a
\* header are the header of the client's next message.
C34_FramingAfterIgnored ==
    \A i \in 1..(Len(conn_seen["cl"]) - 1) :
        (conn_seen["cl"][i].aligned
         /\ conn_seen["cl"][i].command \notin {"getheaders", "getdata"})
            => /\ conn_seen["cl"][i + 1].aligned
               /\ conn_seen["cl"][i + 1].number = conn_seen["cl"][i].number + 1

(***************************************************************************)
(* The accept loop of iniciar_server together with the handler thread of   *)
(* the accepted client and the notifier.                                   *)
(***************************************************************************)
\* listener.accept() returns the client's socket: it is registered with
\* agregar_cliente_en_vector_conexiones, and conectar_cliente spawns the
\* thread that starts with recibir_handshake
iniciar_server ==
    /\ conn_pc["cl"] = "none"
    /\ conn_pc' = [conn_pc EXCEPT !["cl"] = "await_version"]
    /\ client_connections' =
          [a \in (DOMAIN client_connections) \cup {"cl"} |->
              IF a = "cl" THEN [closed |-> FALSE, out |-> <<>>] ELSE client_connections[a]]
    /\ UNCHANGED <<wallet_vars, listener_vars, conn_in, conn_out, conn_closed, conn_seen,
                   conn_ret, n_peer, headers_hash_height, txn_memory, recv_notif, last_notif,
                   last_call, config, pool>>

InitAccept ==
    /\ InitWalletPart(<<>>)
    /\ InitListenerPart
    /\ InitServerPart(<<TESNET_GENESIS_HEADER>>)
    /\ conn_pc = [c \in Conn |-> IF c = "up" THEN "done" ELSE "none"]
    /\ conn_in = [c \in Conn |-> <<>>]
    /\ conn_out = [c \in Conn |-> <<>>]
    /\ conn_closed = [c \in Conn |-> FALSE]
    /\ conn_seen = [c \in Conn |-> <<>>]
    /\ conn_ret = [c \in Conn |-> NoReturn]
    /\ n_peer = 0

NextAccept ==
    \/ iniciar_server
    \/ \E m \in PeerMessages : PeerSend("cl", m)
    \/ PeerClose("cl")
    \/ recibir_version_read
    \/ recibir_version_write
    \/ recibir_verack_read
    \/ recibir_verack_write
    \/ handlear_peticiones_cliente
    \/ \E inv \in NotifiedInvs : EnviarNotificacion(inv)
    \/ envio_notificaciones_cliente

SpecAccept == InitAccept /\ [][NextAccept]_vars

\* C35: no inv notification is written to the connection of a client whose
\* inbound handshake (recibir_handshake) has not completed.
C35_NoInvBeforeHandshake ==
    [][\A a \in (DOMAIN client_connections) \cap (DOMAIN client_connections') :
          Len(client_connections'[a].out) > Len(client_connections[a].out)
              => conn_pc[a] \in {"serving", "ended"}]_vars

(***************************************************************************)
(* Threads that write to the same socket.  iniciar_nodo gives the listener *)
(* a try_clone of the upstream socket and the wallet another; a client's   *)
(* socket is in the registry the notifier writes to and its try_clone is   *)
(* with the client's handler.  No lock is taken around a write.            *)
(* last_call holds, for each thread, the bytes of the frame write_all has  *)
(* still to write and the number of frames it has started; each thread     *)
(* writes one frame.                                                       *)
(***************************************************************************)
Writers == {"wallet", "listener", "handler", "notifier"}

SocketOf(thread) == IF thread \in {"wallet", "listener"} THEN "up" ELSE "cl"

\* the frames each thread writes
CommandsOf(thread) ==
    CASE thread = "wallet" -> {"tx"}
      [] thread = "listener" -> {"getdata", "pong"}
      [] thread = "handler" -> {"headers", "block"}
      [] thread = "notifier" -> {"inv"}

\* [header, payload].concat() of write_to_node: the frame with the command,
\* the header scaled to MESSAGE_HEADER_SIZE bytes and the payload to one
FrameBuffer(thread, command, number) ==
    [i \in 1..(MESSAGE_HEADER_SIZE + 1) |->
        [thread |-> thread, command |-> command, number |-> number, index |-> i]]

\* write_to_node up to its write_all: the buffer is built
write_to_node(thread, command) ==
    /\ last_call.fn = "write_to_node"
    /\ last_call.pending[thread] = <<>>
    /\ last_call.frames[thread] < 1
    /\ last_call' = [last_call EXCEPT
                        !.frames[thread] = @ + 1,
                        !.pending[thread] =
                            FrameBuffer(thread, command, last_call.frames[thread] + 1)]
    /\ UNCHANGED <<wallet_vars, listener_vars, conn_vars, headers_hash_height, txn_memory, client_connections,
                   recv_notif, last_notif, config, pool>>

\* one write of the loop of write_all: the socket takes the first n bytes of
\* what is left of the buffer (Write::write may take fewer bytes than given)
write_all(thread, n) ==
    /\ last_call.fn = "write_to_node"
    /\ n \in 1..Len(last_call.pending[thread])
    /\ conn_out' = [conn_out EXCEPT ![SocketOf(thread)] =
                       @ \o SubSeq(last_call.pending[thread], 1, n)]
    /\ last_call' = [last_call EXCEPT !.pending[thread] =
                        SubSeq(@, n + 1, Len(@))]
    /\ UNCHANGED <<wallet_vars, listener_vars, conn_pc, conn_in, conn_closed,
                   conn_seen, conn_ret, n_peer, headers_hash_height, txn_memory,
                   client_connections, recv_notif, last_notif, config, pool>>

InitWrites ==
    /\ InitWalletPart(<<>>)
    /\ InitListenerPart
    /\ headers_hash_height = obtener_hash_height_headers(<<TESNET_GENESIS_HEADER>>)
    /\ txn_memory = <<>>
    /\ client_connections = <<>>
    /\ recv_notif = <<>>
    /\ last_notif = [kind |-> "none"]
    /\ last_call = [fn |-> "write_to_node", pending |-> [t \in Writers |-> <<>>],
                    frames |-> [t \in Writers |-> 0]]
    /\ config = DefaultConfig
    /\ pool = NoPool
    /\ conn_pc = [c \in Conn |-> IF c = "up" THEN "done" ELSE "serving"]
    /\ conn_in = [c \in Conn |-> <<>>]
    /\ conn_out = [c \in Conn |-> <<>>]
    /\ conn_closed = [c \in Conn |-> FALSE]
    /\ conn_seen = [c \in Conn |-> <<>>]
    /\ conn_ret = [c \in Conn |-> NoReturn]
    /\ n_peer = 0

NextWrites ==
    \/ \E thread \in Writers : \E command \in CommandsOf(thread) : write_to_node(thread, command)
    \/ \E thread \in Writers, n \in 1..(MESSAGE_HEADER_SIZE + 1) : write_all(thread, n)

SpecWrites == InitWrites /\ [][NextWrites]_vars

\* C36: on every connection the bytes of each frame are contiguous: between
\* two bytes of one frame there is no byte of a frame of another thread.
C36_FramesNeverInterleave ==
    \A c \in Conn :
        \A i, k \in 1..Len(conn_out[c]) :
            (/\ i < k
             /\ conn_out[c][i].thread = conn_out[c][k].thread
             /\ conn_out[c][i].number = conn_out[c][k].number)
                => \A j \in i..k : /\ conn_out[c][j].thread = conn_out[c][i].thread
                                   /\ conn_out[c][j].number = conn_out[c][i].number

(***************************************************************************)
(* Inputs of the transactions an account is sending.                       *)
(***************************************************************************)
\* the outputs a transaction spends
SpentOutputs(txn) == {txn.tx_in[i].previous_output : i \in 1..Len(txn.tx_in)}

\* the outputs spent by the transactions of the account's Sending list
SendingOutputs(account) ==
    UNION {SpentOutputs(account.sending_txn[i].txn) : i \in 1..Len(account.sending_txn)}

\* C37: a RealizarTransferencia of an account never selects as input an
\* output that is already spent by a transaction of that account's Sending
\* list.
C37_NoInputReuse ==
    [][\A alias \in (DOMAIN wallets) \cap (DOMAIN wallets') :
          (/\ Handled("RealizarTransferencia")
           /\ last_event'.alias = alias
           /\ last_event'.error = "none")
              => SpentOutputs(last_event'.txn) \cap SendingOutputs(wallets[alias]) = {}]_vars

(***************************************************************************)
(* The scan of the blocks directory against update_utxo.                   *)
(***************************************************************************)
\* C39: when no block of the directory spends an output of a block B that
\* is not in it, the scan of the directory with B in it (obtain_utxo, in
\* whatever order the files are read) gives the map that update_utxo with B
\* gives from the scan of the directory without B.
C39_ScanWithBlockIsUpdate ==
    [][(/\ last_event.kind = "ObtainUtxo"
        /\ last_event'.kind = "RecibirBloque"
        /\ HashOf(last_event'.bloque) \notin DOMAIN blocks_dir
        /\ ScannedInputKeys \cap BlockOutputKeys(last_event'.bloque) = {})
           => LET dir == guardar_bloque_memoria(blocks_dir, last_event'.bloque)
              IN  \A order \in Orders(DOMAIN dir) : obtain_utxo(dir, order) = utxos']_vars

(***************************************************************************)
(* The recursions over the levels of the Merkle tree, one call at a time.  *)
(* last_call is the innermost frame; depth counts the frames on the stack, *)
(* which overflows after MaxDepth of them.                                 *)
(***************************************************************************)
MaxDepth == 4

\* the loop over the pairs of a level: the level above it
hashear_pares(transacciones) ==
    LET padded == IF Len(transacciones) % 2 # 0
                  THEN Append(transacciones, transacciones[Len(transacciones)])
                  ELSE transacciones
    IN  [j \in 1..(Len(padded) \div 2) |-> sha256d_concat(padded[2 * j - 1], padded[2 * j])]

\* transactions of the blocks parsed: SerializedBlock::from_bytes reads as
\* many transactions as txn_count says, none when it is 0
ParsedBodies == UNION {[1..n -> {F1, F2, E1}] : n \in 0..(MaxBlockTxns + 1)}

txids_de(txns) == [i \in 1..Len(txns) |-> sha256d_txn(txns[i])]

InitMerkleRun == InitCalls({[fn |-> "input", txns |-> txns] : txns \in ParsedBodies})

\* proof_of_inclusion : the txids of the block, then the first call of
\* generar_merkle_tree_root_hash
LlamarProofOfInclusion ==
    /\ last_call.fn = "input"
    /\ last_call' = [fn |-> "generar_merkle_tree_root_hash",
                     transacciones |-> txids_de(last_call.txns), depth |-> 1]
    /\ UNCHANGED <<wallet_vars, listener_vars, conn_vars, headers_hash_height, txn_memory,
                   client_connections, recv_notif, last_notif, config, pool>>

\* generar_merkle_tree : the txids as first level, then the first call of
\* generar_niveles_arbol
LlamarGenerarMerkleTree ==
    /\ last_call.fn = "input"
    /\ last_call' = [fn |-> "generar_niveles_arbol",
                     merkle_tree |-> <<txids_de(last_call.txns)>>, indice |-> 1, depth |-> 1]
    /\ UNCHANGED <<wallet_vars, listener_vars, conn_vars, headers_hash_height, txn_memory,
                   client_connections, recv_notif, last_notif, config, pool>>

\* one call of generar_merkle_tree_root_hash: the base case returns, any
\* other level calls the function again with the level above
generar_merkle_tree_root_hash_llamada ==
    /\ last_call.fn = "generar_merkle_tree_root_hash"
    /\ last_call' =
          IF Len(last_call.transacciones) = 1
          THEN [fn |-> "returned", result |-> last_call.transacciones[1]]
          ELSE IF last_call.depth = MaxDepth
          THEN [fn |-> "stack_overflow"]
          ELSE [fn |-> "generar_merkle_tree_root_hash",
                transacciones |-> hashear_pares(last_call.transacciones),
                depth |-> last_call.depth + 1]
    /\ UNCHANGED <<wallet_vars, listener_vars, conn_vars, headers_hash_height, txn_memory,
                   client_connections, recv_notif, last_notif, config, pool>>

\* one call of generar_niveles_arbol
generar_niveles_arbol_llamada ==
    /\ last_call.fn = "generar_niveles_arbol"
    /\ last_call' =
          IF Len(last_call.merkle_tree[last_call.indice]) = 1
          THEN [fn |-> "returned", result |-> last_call.merkle_tree]
          ELSE IF last_call.depth = MaxDepth
          THEN [fn |-> "stack_overflow"]
          ELSE [fn |-> "generar_niveles_arbol",
                merkle_tree |-> Append(last_call.merkle_tree,
                                       hashear_pares(last_call.merkle_tree[last_call.indice])),
                indice |-> last_call.indice + 1,
                depth |-> last_call.depth + 1]
    /\ UNCHANGED <<wallet_vars, listener_vars, conn_vars, headers_hash_height, txn_memory,
                   client_connections, recv_notif, last_notif, config, pool>>

NextMerkleRun ==
    \/ LlamarProofOfInclusion
    \/ LlamarGenerarMerkleTree
    \/ generar_merkle_tree_root_hash_llamada
    \/ generar_niveles_arbol_llamada

SpecMerkleRun == InitMerkleRun /\ [][NextMerkleRun]_vars

\* the thread that computes the root keeps running
SpecMerkleRunFair == SpecMerkleRun /\ WF_vars(NextMerkleRun)

\* C40: for every parsed block, also one with no transactions, the
\* recomputation of the Merkle root and the generation of the Merkle tree
\* return.
C40_MerkleTerminates == <>(last_call.fn = "returned")

====
